---- MODULE Spec2Model ----
(***************************************************************************)
(* The selector-inheritance engine (Extender) of LibSass.                  *)
(*                                                                         *)
(* Selector universe of the model: a simple selector is a record           *)
(* [name, selector]: a class (".a"), a placeholder ("%p") or the selector  *)
(* pseudo ":not(L)", whose `selector` is the nested list L; a compound     *)
(* selector is a sequence of simple selectors; a complex selector consists *)
(* of a single compound (no combinators), so weaving one path is the       *)
(* identity.  A complex selector object is a record [id, v]: `id` is the   *)
(* object's identity (the pointer), `v` the simple selectors of its        *)
(* compound.  A nested list is a sequence of compounds.                    *)
(***************************************************************************)
EXTENDS Integers, Sequences, FiniteSets, TLC

VARIABLES
  lists,                 \* heap: selector-list handle -> sequence of complex selector objects
  selectors,             \* Extender::selectors            simple -> set of list handles
  extensions,            \* Extender::extensions           simple -> ordered map (sequence of Extension)
  extensionsByExtender,  \* Extender::extensionsByExtender simple -> sequence of Extension
  mediaContexts,         \* Extender::mediaContexts        list handle -> media context
  sourceSpecificity,     \* Extender::sourceSpecificity    simple -> specificity
  originals,             \* Extender::originals            set of complex selector objects
  sheet,                 \* the stylesheet being compiled: the selectors and targets it uses
  declared,              \* list handle -> the selector list as written in the stylesheet
  directives,            \* the @extend directives evaluated: <<list handle, target>> pairs
  last,                  \* the call that produced this state, with what it was given
  call                   \* a call of a function on its own: its arguments and its result

vars == <<lists, selectors, extensions, extensionsByExtender, mediaContexts,
          sourceSpecificity, originals, sheet, declared, directives, last, call>>

----------------------------------------------------------------------------
(* Bounds of the model *)

MaxCand == 3        \* longest candidate list handed to trim on its own
MaxRedo == 6        \* restarts of trim's loop followed before giving up
MaxRules == 3       \* style rules of a stylesheet
MaxExts == 2        \* @extend directives of a stylesheet
MaxReAdd == 1       \* repeated addSelector calls

(* Program constants *)

TrimLimit == 100          \* trim skips lists longer than this
ClassSpecificity == 1000  \* specificity of a class, attribute, pseudo-class or placeholder
IdSpecificity == 1000000  \* specificity of an id

Null == "null"            \* a null object reference

NORMAL  == "NORMAL"
TARGETS == "TARGETS"
REPLACE == "REPLACE"

\* simple selectors
Cls(n) == [name |-> n, selector |-> <<>>]
NotSel(nested) == [name |-> "not", selector |-> nested]

\* a null SimpleSelectorObj
NullSimple == [name |-> "null", selector |-> <<>>]

PlaceholderNames == {"p"}

isPlaceholder(simple) == simple.name \in PlaceholderNames

IdNames == {"x", "y"}

isId(simple) == simple.name \in IdNames

\* Cast<Pseudo_Selector>(simple) with pseudo->selector() set
isSelectorPseudo(simple) == simple.selector # <<>>

----------------------------------------------------------------------------
(* Generic helpers *)

Range(s) == {s[i] : i \in DOMAIN s}

Max2(x, y) == IF x >= y THEN x ELSE y

SetMin(S) == CHOOSE x \in S : \A y \in S : x <= y

RECURSIVE SeqMaxOf(_)
SeqMaxOf(s) == IF s = <<>> THEN 0 ELSE Max2(Head(s), SeqMaxOf(Tail(s)))

RECURSIVE Flatten(_)
Flatten(ss) == IF ss = <<>> THEN <<>> ELSE Head(ss) \o Flatten(Tail(ss))

MapGet(f, k, default) == IF k \in DOMAIN f THEN f[k] ELSE default

MapPut(f, k, val) == [x \in (DOMAIN f) \cup {k} |-> IF x = k THEN val ELSE f[x]]

----------------------------------------------------------------------------
(* Selector model: equality, specificity, super-selector, unification *)

\* CompoundSelector equality: same length, every simple of one in the other
CompoundEq(x, y) == Len(x) = Len(y) /\ Range(y) \subseteq Range(x)

\* ObjEquality on complex selectors (by value)
CplxEq(c, d) == CompoundEq(c.v, d.v)

\* ObjEquality on selector lists: same length, every element of one in the other
ListEq(l, m) == Len(l) = Len(m) /\ \A i \in DOMAIN m : \E k \in DOMAIN l : CplxEq(l[k], m[i])

\* The values of a list, for comparing contents independently of object identity
Values(l) == [i \in DOMAIN l |-> l[i].v]

\* value v occurs in list l
InList(l, v) == \E i \in DOMAIN l : CompoundEq(l[i].v, v)

RECURSIVE SeqSum(_)
SeqSum(s) == IF s = <<>> THEN 0 ELSE Head(s) + SeqSum(Tail(s))

RECURSIVE SeqMinOf(_)
SeqMinOf(s) == IF Len(s) = 1 THEN s[1]
               ELSE LET m == SeqMinOf(Tail(s)) IN IF Head(s) <= m THEN Head(s) ELSE m

\* specificity of a compound: the sum over its simples; a selector pseudo has
\* the greatest (maxSpecificity) or the least (minSpecificity) of its branches
RECURSIVE maxSpecificity(_)
maxSpecificity(v) ==
  SeqSum([i \in DOMAIN v |->
            IF isSelectorPseudo(v[i])
              THEN SeqMaxOf([k \in DOMAIN v[i].selector |-> maxSpecificity(v[i].selector[k])])
              ELSE IF isId(v[i]) THEN IdSpecificity ELSE ClassSpecificity])

RECURSIVE minSpecificity(_)
minSpecificity(v) ==
  SeqSum([i \in DOMAIN v |->
            IF isSelectorPseudo(v[i])
              THEN SeqMinOf([k \in DOMAIN v[i].selector |-> minSpecificity(v[i].selector[k])])
              ELSE IF isId(v[i]) THEN IdSpecificity ELSE ClassSpecificity])

\* complex2->isSuperselectorOf(complex1) for complex selectors of one compound:
\* every simple of v2 is a super-simple of a simple of v1; :not is inverted
RECURSIVE isSuperselectorOf(_, _)
isSuperselectorOf(v2, v1) ==
  \A i \in DOMAIN v2 :
    IF isSelectorPseudo(v2[i])
      THEN \A x \in DOMAIN v2[i].selector :
             \E k \in DOMAIN v1 :
               /\ v1[k].name = v2[i].name
               /\ \E y \in DOMAIN v1[k].selector :
                    isSuperselectorOf(v1[k].selector[y], v2[i].selector[x])
      ELSE v2[i] \in Range(v1)

\* a complex selector with a placeholder produces no CSS
HasPlaceholder(v) == \E i \in DOMAIN v : isPlaceholder(v[i])

\* SelectorList::isInvisible: every complex selector contains a placeholder
isInvisible(l) == \A i \in DOMAIN l : HasPlaceholder(l[i].v)

\* two different ids cannot match one element
contradicts(base, simple) ==
  isId(simple) /\ \E k \in DOMAIN base : isId(base[k]) /\ base[k] # simple

\* simple->unifyWith(compound): the compound itself when it holds the simple
\* already, no compound (<<>>) when the simple contradicts it
RECURSIVE unifyInto(_, _)
unifyInto(base, simples) ==
  IF simples = <<>> THEN base
  ELSE IF contradicts(base, Head(simples)) THEN <<>>
  ELSE unifyInto(IF Head(simples) \in Range(base) THEN base
                 ELSE Append(base, Head(simples)),
                 Tail(simples))

RECURSIVE unifyComplex(_)

\* unifyComplex goes on with the unified compound, or has nothing to return
unifiedWith(unified, rest) ==
  IF unified = <<>> THEN <<>> ELSE unifyComplex(<<unified>> \o rest)

\* unifyComplex on complex selectors of one compound each: the compounds are
\* unified left to right; the result is empty when they cannot be unified
unifyComplex(toUnify) ==
  IF Len(toUnify) <= 1 THEN toUnify
  ELSE unifiedWith(unifyInto(toUnify[1], toUnify[2]), SubSeq(toUnify, 3, Len(toUnify)))

----------------------------------------------------------------------------
(* Specificity of the sources of a selector *)

maxSourceSpecificitySimple(ss, simple) == MapGet(ss, simple, 0)

maxSourceSpecificity(ss, compound) ==
  SeqMaxOf([i \in DOMAIN compound |-> maxSourceSpecificitySimple(ss, compound[i])])

----------------------------------------------------------------------------
(* trim *)

\* a test that leaves the specificity out
isSuperselectorOnly(complex2, complex1, maxSpec) ==
  isSuperselectorOf(complex2.v, complex1.v)

dontTrimComplex(complex2, complex1, maxSpec) ==
  IF minSpecificity(complex2.v) < maxSpec THEN FALSE
  ELSE isSuperselectorOf(complex2.v, complex1.v)

\* start and end are the 0-based bounds of the code: [start, end)
rotateSlice(list, start, end) ==
  [k \in DOMAIN list |->
     IF k = start + 1 THEN list[end]
     ELSE IF k > start + 1 /\ k <= end THEN list[k - 1]
     ELSE list[k]]

hasAny(cnt, complex1, maxSpec) ==
  \E k \in DOMAIN cnt : dontTrimComplex(cnt[k], complex1, maxSpec)

\* the elements of cnt before 0-based index len
hasSubAny(cnt, len, complex1, maxSpec) ==
  \E k \in 1..len : dontTrimComplex(cnt[k], complex1, maxSpec)

\* a lookup that never finds the selector
isKnownOriginalNever(existing, complex1) == FALSE

\* existing.find(complex1) != existing.end(): the set is keyed by object identity
isKnownOriginal(existing, complex1) == complex1 \in existing

\* One run of the loop from the redo label; i is the 1-based index of the
\* candidate looked at, 0 when the loop is over.  What a run does depends on
\* result only through the set of its values (hasAny) and the values of its
\* first numOriginals elements (the search for a duplicate original); seen
\* holds these pairs for the restarts so far: the loop restarted twice with
\* the same pair never ends.
RECURSIVE trimLoop(_, _, _, _, _, _, _)
trimLoop(sels, existing, ss, i, result, numOriginals, seen) ==
  IF i = 0 THEN [st |-> "ok", res |-> result]
  ELSE
    LET complex1 == sels[i] IN
    IF isKnownOriginal(existing, complex1) THEN
      LET dups == {j \in 1..numOriginals : CplxEq(result[j], complex1)} IN
      IF dups # {} THEN
        LET j   == SetMin(dups)
            rot == rotateSlice(result, 0, j)
            cfg == <<{rot[k].v : k \in DOMAIN rot}, [k \in 1..numOriginals |-> rot[k].v]>>
        IN  IF cfg \in seen THEN [st |-> "hang", res |-> <<>>]
            ELSE IF Cardinality(seen) >= MaxRedo THEN [st |-> "fuel", res |-> <<>>]
            ELSE trimLoop(sels, existing, ss, Len(sels), rot, numOriginals,
                          seen \cup {cfg})
      ELSE trimLoop(sels, existing, ss, i - 1, <<complex1>> \o result,
                    numOriginals + 1, seen)
    ELSE
      LET maxSpec == maxSourceSpecificity(ss, complex1.v) IN
      IF hasAny(result, complex1, maxSpec) THEN
        trimLoop(sels, existing, ss, i - 1, result, numOriginals, seen)
      ELSE IF hasSubAny(sels, i - 1, complex1, maxSpec) THEN
        trimLoop(sels, existing, ss, i - 1, result, numOriginals, seen)
      ELSE
        trimLoop(sels, existing, ss, i - 1, <<complex1>> \o result, numOriginals, seen)

trim(sels, existing, ss) ==
  IF Len(sels) > TrimLimit THEN [st |-> "ok", res |-> sels]
  ELSE trimLoop(sels, existing, ss, Len(sels), <<>>, 0, {})

----------------------------------------------------------------------------
(* Extension *)

\* Extension(complex): the one-off extension of the constructor
Extension(complex) ==
  [extender |-> complex, target |-> NullSimple, specificity |-> 0,
   isOptional |-> TRUE, isOriginal |-> FALSE, mediaContext |-> Null]

withExtender(extension, newExtender) ==
  [Extension(newExtender) EXCEPT !.specificity = extension.specificity,
                                 !.isOptional = extension.isOptional,
                                 !.target = extension.target]

\* a media rule is named by its block; two rules are equal iff they are the same
MediaBlock(m) == m

\* an assertion that never throws
assertCompatibleAlways(extension, mediaQueryContext) == TRUE

\* TRUE when the assertion passes, FALSE when it throws ExtendAcrossMedia
assertCompatibleMediaContext(extension, mediaQueryContext) ==
  IF extension.mediaContext = Null THEN TRUE
  ELSE IF mediaQueryContext # Null
          /\ MediaBlock(extension.mediaContext) = MediaBlock(mediaQueryContext) THEN TRUE
  ELSE IF mediaQueryContext = extension.mediaContext THEN TRUE
  ELSE FALSE

mergeExtension(lhs, rhs) ==
  IF rhs.isOptional /\ rhs.mediaContext = Null THEN lhs
  ELSE IF lhs.isOptional /\ lhs.mediaContext = Null THEN rhs
  ELSE [lhs EXCEPT !.isOptional = TRUE, !.isOriginal = FALSE]

\* simple->wrapInComplex() and compound->wrapInComplex(): a new object
wrapInComplex(simples) == [id |-> <<0>>, v |-> simples]

extensionForSimple(ss, simple) ==
  [Extension(wrapInComplex(<<simple>>)) EXCEPT
     !.specificity = maxSourceSpecificitySimple(ss, simple),
     !.isOriginal = TRUE]

extensionForCompound(simples) ==
  [Extension(wrapInComplex(simples)) EXCEPT !.isOriginal = TRUE]

----------------------------------------------------------------------------
(* ordered_map<ComplexSelectorObj, Extension>: a sequence of extensions in    *)
(* insertion order, keyed by the value of the extender                        *)

hasKey(entry, complex) == \E i \in DOMAIN entry : CplxEq(entry[i].extender, complex)

keyIndex(entry, complex) == CHOOSE i \in DOMAIN entry : CplxEq(entry[i].extender, complex)

mapGet(entry, complex) == entry[keyIndex(entry, complex)]

mapInsert(entry, complex, val) ==
  IF hasKey(entry, complex) THEN [entry EXCEPT ![keyIndex(entry, complex)] = val]
  ELSE Append(entry, val)

RECURSIVE mapErase(_, _)
mapErase(entry, complex) ==
  IF entry = <<>> THEN <<>>
  ELSE IF CplxEq(Head(entry).extender, complex) THEN Tail(entry)
  ELSE <<Head(entry)>> \o mapErase(Tail(entry), complex)

\* no simple of the extender gets the extension
pushToNone(byExt, simples, state) == byExt

\* every simple of the extender gets the extension appended to its list
RECURSIVE pushByExtender(_, _, _)
pushByExtender(byExt, simples, state) ==
  IF simples = <<>> THEN byExt
  ELSE pushByExtender(
         MapPut(byExt, Head(simples), Append(MapGet(byExt, Head(simples), <<>>), state)),
         Tail(simples), state)

----------------------------------------------------------------------------
(* extendList, extendComplex, extendCompound, extendSimple, extendPseudo   *)
(*                                                                         *)
(* Results are records with st: "ok", "throw" (ExtendAcrossMedia is        *)
(* thrown by assertCompatibleMediaContext), "hang" (trim never returns).   *)

\* the vector of vectors has the last index varying fastest
RECURSIVE permutate(_)
permutate(in) ==
  IF in = <<>> THEN << <<>> >>
  ELSE LET rest == permutate(Tail(in))
       IN  Flatten([i \in DOMAIN Head(in) |->
                      [k \in DOMAIN rest |-> <<Head(in)[i]>> \o rest[k]]])

\* [opts, used]: the extensions for simple, and the targets recorded as used
extendWithoutPseudo(simple, exts, mode, ss) ==
  IF simple \notin DOMAIN exts THEN [opts |-> <<>>, used |-> {}]
  ELSE IF mode = REPLACE THEN [opts |-> exts[simple], used |-> {simple}]
  ELSE [opts |-> <<extensionForSimple(ss, simple)>> \o exts[simple], used |-> {simple}]

\* Inner loop helper for extendPseudo: what one complex selector of the
\* extended nested list expands to
extendPseudoComplex(complex, pseudo) ==
  IF Len(complex) # 1 THEN <<complex>>
  ELSE IF ~isSelectorPseudo(complex[1]) THEN <<complex>>
  ELSE IF pseudo.name = "not" THEN
    IF complex[1].name # "matches" THEN <<>> ELSE complex[1].selector
  ELSE <<>>

\* the first path: the last compounds of the extenders, concatenated
mergedSelector(path) == Flatten([n \in DOMAIN path |-> path[n].extender.v])

RECURSIVE pathOriginals(_)
pathOriginals(path) ==
  IF path = <<>> THEN <<>>
  ELSE (IF Head(path).isOriginal
          THEN <<Head(path).extender.v[Len(Head(path).extender.v)]>>
          ELSE <<>>) \o pathOriginals(Tail(path))

RECURSIVE pathToUnify(_)
pathToUnify(path) ==
  IF path = <<>> THEN <<>>
  ELSE (IF Head(path).isOriginal THEN <<>> ELSE <<Head(path).extender.v>>)
       \o pathToUnify(Tail(path))

unifiedPath(path) ==
  LET origs   == pathOriginals(path)
      toUnify == (IF origs # <<>> THEN <<origs>> ELSE <<>>) \o pathToUnify(path)
  IN  unifyComplex(toUnify)

pathCompatible(path, mediaQueryContext) ==
  \A n \in DOMAIN path : assertCompatibleMediaContext(path[n], mediaQueryContext)

RECURSIVE extendList(_, _, _, _, _, _, _)

\* the nested list of a selector pseudo as a list of complex selector objects
nestedOf(pseudo) == [i \in DOMAIN pseudo.selector |-> wrapInComplex(pseudo.selector[i])]

\* the loop of extendPseudo over the complex selectors of the extended list
expandedPseudo(pseudo, complexes) ==
  Flatten([i \in DOMAIN complexes |-> extendPseudoComplex(complexes[i], pseudo)])

\* :not() with a single nested selector yields one pseudo for each complex
pseudosOf(pseudo, expanded) ==
  [i \in DOMAIN expanded |-> [pseudo EXCEPT !.selector = <<expanded[i]>>]]

\* extendPseudo once extendList has returned `extended` for the nested list
extendedPseudo(pseudo, nested, extended) ==
  IF extended.st # "ok" THEN [st |-> extended.st, res |-> <<>>]
  ELSE IF ListEq(nested, extended.res) THEN [st |-> "ok", res |-> <<>>]
  ELSE IF pseudo.name = "not" /\ Len(pseudo.selector) = 1 THEN
    [st |-> "ok", res |-> pseudosOf(pseudo, expandedPseudo(pseudo, Values(extended.res)))]
  ELSE [st |-> "ok", res |-> <<[pseudo EXCEPT !.selector = Values(extended.res)]>>]

\* [st, res]: the pseudo selectors that replace pseudo, none when the nested
\* list is not extended
extendPseudo(pseudo, exts, mediaQueryContext, mode, ss, origs) ==
  extendedPseudo(pseudo, nestedOf(pseudo),
                 extendList(nestedOf(pseudo), exts, mediaQueryContext, mode, ss, origs, <<0>>))

\* the result of extendSimple for a simple selector extended as it stands
withoutPseudo(plain) ==
  [st |-> "ok", used |-> plain.used,
   opts |-> IF plain.opts = <<>> THEN <<>> ELSE <<plain.opts>>]

\* the result of extendSimple for the pseudos `res` that replace a selector
\* pseudo; merged[k] is what extendWithoutPseudo returned for res[k]
withPseudos(ss, res, merged) ==
  [st |-> "ok",
   used |-> UNION {merged[k].used : k \in DOMAIN res},
   opts |-> [k \in DOMAIN res |->
               IF merged[k].opts = <<>> THEN <<extensionForSimple(ss, res[k])>>
               ELSE merged[k].opts]]

\* extendSimple once extendPseudo has returned `extended` for the simple selector
extendedSimple(simple, exts, mode, ss, extended) ==
  IF extended.st # "ok" THEN [st |-> extended.st, opts |-> <<>>, used |-> {}]
  ELSE IF extended.res = <<>> THEN
    withoutPseudo(extendWithoutPseudo(simple, exts, mode, ss))
  ELSE withPseudos(ss, extended.res,
                   [k \in DOMAIN extended.res |->
                      extendWithoutPseudo(extended.res[k], exts, mode, ss)])

\* [st, opts, used]: opts is the vector of vectors of extensions
extendSimple(simple, exts, mediaQueryContext, mode, ss, origs) ==
  IF ~isSelectorPseudo(simple) THEN
    withoutPseudo(extendWithoutPseudo(simple, exts, mode, ss))
  ELSE extendedSimple(simple, exts, mode, ss,
                      extendPseudo(simple, exts, mediaQueryContext, mode, ss, origs))

\* the options after the simple selector compound[i] was extended to `extended`
optionsWith(compound, ss, i, acc, extended) ==
  IF extended.opts = <<>> THEN
    [acc EXCEPT !.used = @ \cup extended.used,
       !.options = IF @ # <<>> THEN Append(@, <<extensionForSimple(ss, compound[i])>>)
                   ELSE @]
  ELSE
    [acc EXCEPT !.used = @ \cup extended.used,
       !.options = (IF @ = <<>> /\ i # 1
                      THEN << <<extensionForCompound(SubSeq(compound, 1, i - 1))>> >>
                      ELSE @) \o extended.opts]

RECURSIVE buildOptions(_, _, _, _, _, _, _, _)

\* one round of the loop, extendSimple having returned `extended`
buildOption(compound, exts, mediaQueryContext, mode, ss, origs, i, acc, extended) ==
  IF extended.st # "ok" THEN [acc EXCEPT !.st = extended.st]
  ELSE buildOptions(compound, exts, mediaQueryContext, mode, ss, origs, i + 1,
                    optionsWith(compound, ss, i, acc, extended))

\* the loop of extendCompound over the simple selectors (lines 663-684);
\* acc = [st, options, used]
buildOptions(compound, exts, mediaQueryContext, mode, ss, origs, i, acc) ==
  IF i > Len(compound) THEN acc
  ELSE buildOption(compound, exts, mediaQueryContext, mode, ss, origs, i, acc,
                   extendSimple(compound[i], exts, mediaQueryContext, mode, ss, origs))

\* the complex selectors of path i: the first path is merged unless
\* replacing, the others are unified
pathComplexes(paths, i, mode) ==
  IF i = 1 /\ mode # REPLACE THEN <<mergedSelector(paths[i])>>
  ELSE unifiedPath(paths[i])

\* the loop over the paths (lines 741-801): a path that cannot be unified ends
\* the call with an empty result, a path of another media context throws
RECURSIVE pathSelectors(_, _, _, _, _)
pathSelectors(paths, mediaQueryContext, mode, i, unifiedPaths) ==
  IF i > Len(paths) THEN [st |-> "ok", res |-> unifiedPaths]
  ELSE IF pathComplexes(paths, i, mode) = <<>> THEN [st |-> "ok", res |-> <<>>]
  ELSE IF ~pathCompatible(paths[i], mediaQueryContext) THEN [st |-> "throw", res |-> <<>>]
  ELSE pathSelectors(paths, mediaQueryContext, mode, i + 1,
                     unifiedPaths \o pathComplexes(paths, i, mode))

\* no set of used targets is kept
targetsNeverMissed(exts, mode, used) == FALSE

\* targetsUsed is kept when not in NORMAL mode and the map has more than one
\* key (lines 656-658); extension fails when some but not all keys were used
\* (lines 688-699)
targetsMissed(exts, mode, used) ==
  /\ mode # NORMAL /\ Cardinality(DOMAIN exts) > 1
  /\ Cardinality(used) # Cardinality(DOMAIN exts)
  /\ used # {}

\* extendCompound after its loop over the simple selectors ended with b
extendedCompound(exts, mediaQueryContext, mode, b) ==
  IF b.st # "ok" THEN [st |-> b.st, res |-> <<>>]
  ELSE IF b.options = <<>> THEN [st |-> "ok", res |-> <<>>]
  ELSE IF targetsMissed(exts, mode, b.used) THEN [st |-> "ok", res |-> <<>>]
  ELSE IF Len(b.options) = 1 THEN
    IF pathCompatible(b.options[1], mediaQueryContext)
      THEN [st |-> "ok",
            res |-> [n \in DOMAIN b.options[1] |-> b.options[1][n].extender.v]]
      ELSE [st |-> "throw", res |-> <<>>]
  ELSE pathSelectors(permutate(b.options), mediaQueryContext, mode, 1, <<>>)

\* [st, res]: res the values of the complex selectors returned
extendCompound(compound, exts, mediaQueryContext, mode, ss, origs) ==
  extendedCompound(exts, mediaQueryContext, mode,
    buildOptions(compound, exts, mediaQueryContext, mode, ss, origs, 1,
                 [st |-> "ok", options |-> <<>>, used |-> {}]))

\* the new objects of a call: they are named tag.1, tag.2, ...
newObjects(tag, values) == [k \in DOMAIN values |-> [id |-> Append(tag, k), v |-> values[k]]]

\* extendComplex marking no result as original
extendedUnmarked(complex, origs, tag, ec) ==
  [st |-> ec.st, res |-> IF ec.st = "ok" THEN newObjects(tag, ec.res) ELSE <<>>,
   newOrig |-> {}]

\* extendComplex once extendCompound has returned ec
extendedComplex(complex, origs, tag, ec) ==
  IF ec.st # "ok" THEN [st |-> ec.st, res |-> <<>>, newOrig |-> {}]
  ELSE [st |-> "ok", res |-> newObjects(tag, ec.res),
        newOrig |-> IF ec.res # <<>> /\ complex \in origs
                      THEN {newObjects(tag, ec.res)[1]} ELSE {}]

\* [st, res, newOrig]: res are new objects; newOrig is what the call inserts
\* into originals
extendComplex(complex, exts, mediaQueryContext, mode, ss, origs, tag) ==
  extendedComplex(complex, origs, tag,
                  extendCompound(complex.v, exts, mediaQueryContext, mode, ss, origs))

\* the loop of extendList without the selectors that were not extended
extendedOnly(list, results, i, extended) ==
  Flatten([k \in DOMAIN results |-> results[k].res])

\* the loop of extendList over the complex selectors (lines 465-484)
RECURSIVE extendedOf(_, _, _, _)
extendedOf(list, results, i, extended) ==
  IF i > Len(list) THEN extended
  ELSE extendedOf(list, results, i + 1,
         IF results[i].res = <<>>
           THEN (IF extended # <<>> THEN Append(extended, list[i]) ELSE extended)
           ELSE (IF extended = <<>> THEN SubSeq(list, 1, i - 1) ELSE extended)
                  \o results[i].res)

\* extendList left by the exception of extendComplex for list[f]
thrownAt(list, origs, results, f) ==
  [st |-> results[f].st, res |-> list, same |-> TRUE,
   origs |-> origs \cup UNION {results[i].newOrig : i \in 1..(f - 1)}]

\* the list extendList returns when trim has returned t
trimmed(list, origs, t) ==
  [st |-> t.st, res |-> IF t.st = "ok" THEN t.res ELSE list,
   same |-> FALSE, origs |-> origs]

\* the end of extendList: the list itself when nothing was extended
returned(list, ss, origs, extended) ==
  IF extended = <<>> THEN [st |-> "ok", res |-> list, same |-> TRUE, origs |-> origs]
  ELSE trimmed(list, origs, trim(extended, origs, ss))

\* extendList once extendComplex has returned results[i] for list[i]
extendedList(list, ss, origs, results) ==
  IF \E i \in DOMAIN list : results[i].st # "ok" THEN
    thrownAt(list, origs, results, SetMin({i \in DOMAIN list : results[i].st # "ok"}))
  ELSE returned(list, ss, origs \cup UNION {results[i].newOrig : i \in DOMAIN list},
                extendedOf(list, results, 1, <<>>))

\* [st, res, same, origs]: same = the list object itself is returned; origs =
\* originals when the call ends (also when it ends by an exception)
extendList(list, exts, mediaQueryContext, mode, ss, origs, tag) ==
  extendedList(list, ss, origs,
    [i \in DOMAIN list |->
       extendComplex(list[i], exts, mediaQueryContext, mode, ss, origs, Append(tag, i))])

----------------------------------------------------------------------------
(* The durable Extender.  An operation is given the Extender and the heap  *)
(* of selector lists as a record E and yields the record after the call    *)
(* with st: "ok" (returned), "throw" (ExtendAcrossMedia left the call),    *)
(* "hang" (the call never returns).                                        *)

Extender ==
  [lists |-> lists, selectors |-> selectors, extensions |-> extensions,
   extensionsByExtender |-> extensionsByExtender, mediaContexts |-> mediaContexts,
   sourceSpecificity |-> sourceSpecificity, originals |-> originals]

EmptyExtender ==
  [lists |-> <<>>, selectors |-> <<>>, extensions |-> <<>>,
   extensionsByExtender |-> <<>>, mediaContexts |-> <<>>,
   sourceSpecificity |-> <<>>, originals |-> {}]

\* the simple selectors of a nested list, with those inside selector pseudos
RECURSIVE simplesOfNested(_)
simplesOfNested(nested) ==
  UNION {UNION {{nested[i][k]} \cup simplesOfNested(nested[i][k].selector) :
                  k \in DOMAIN nested[i]} : i \in DOMAIN nested}

\* the simple selectors registerSelector visits in a list
simplesOf(list) == simplesOfNested(Values(list))

\* a registration that enters nothing
registerNothing(sel, list, rule) == sel

registerSelector(sel, list, rule) ==
  [s \in (DOMAIN sel) \cup simplesOf(list) |->
     IF s \in simplesOf(list) THEN MapGet(sel, s, {}) \cup {rule} ELSE sel[s]]

\* addSelector that records the originals of every list
addSelectorOriginals(E, h) == E.originals \cup Range(E.lists[h])

\* the originals after the first lines of addSelector
addSelectorOriginalsOf(E, h) ==
  IF ~isInvisible(E.lists[h]) THEN E.originals \cup Range(E.lists[h]) ELSE E.originals

\* addSelector once the list was extended: r is what extendList returned, or
\* the list as it is when there are no extensions
addedSelector(E, h, mediaContext, r) ==
  IF r.st # "ok" THEN [st |-> r.st, E |-> [E EXCEPT !.originals = r.origs]]
  ELSE [st |-> "ok",
        E  |-> [E EXCEPT
                 !.originals = r.origs,
                 !.lists = [E.lists EXCEPT ![h] = r.res],
                 !.mediaContexts = IF mediaContext # Null
                                     THEN MapPut(E.mediaContexts, h, mediaContext)
                                     ELSE E.mediaContexts,
                 !.selectors = registerSelector(E.selectors, r.res, h)]]

\* addSelector(selector, mediaContext); h is the handle of selector, n names
\* the objects the call allocates
addSelector(E, h, mediaContext, n) ==
  addedSelector(E, h, mediaContext,
    IF DOMAIN E.extensions # {}
      THEN extendList(E.lists[h], E.extensions, mediaContext, NORMAL,
                      E.sourceSpecificity, addSelectorOriginalsOf(E, h), <<n, h>>)
      ELSE [st |-> "ok", res |-> E.lists[h], same |-> TRUE,
            origs |-> addSelectorOriginalsOf(E, h)])

----------------------------------------------------------------------------
(* addExtension *)

\* an extension that is registered nowhere
insertExtensionNowhere(sources, complex, state) == sources

\* sources.insert(complex, state) of addExtension
insertExtension(sources, complex, state) == mapInsert(sources, complex, state)

\* the loop over the complex selectors of the extender (lines 282-318); acc =
\* [extensions, byExt, ss, newExtensions]
RECURSIVE addExtensionLoop(_, _, _, _, _, _, _)
addExtensionLoop(extender, target, isOptional, mediaQueryContext, record, i, acc) ==
  IF i > Len(extender) THEN acc
  ELSE
    LET complex == extender[i]
        state   == [Extension(complex) EXCEPT !.target = target,
                                              !.isOptional = isOptional,
                                              !.mediaContext = mediaQueryContext]
        sources == MapGet(acc.extensions, target, <<>>)
        ssOf(ss, simples) ==
          [s \in (DOMAIN ss) \cup Range(simples) |->
             IF s \in DOMAIN ss THEN ss[s] ELSE maxSpecificity(complex.v)]
    IN  IF hasKey(sources, complex) THEN
          addExtensionLoop(extender, target, isOptional, mediaQueryContext, record,
                           i + 1, acc)
        ELSE
          addExtensionLoop(extender, target, isOptional, mediaQueryContext, record, i + 1,
            [extensions    |-> MapPut(acc.extensions, target,
                                      insertExtension(sources, complex, state)),
             byExt         |-> pushByExtender(acc.byExt, complex.v, state),
             ss            |-> ssOf(acc.ss, complex.v),
             newExtensions |-> IF record THEN mapInsert(acc.newExtensions, complex, state)
                               ELSE acc.newExtensions])

\* the loop over the complex selectors extendComplex returned for one old
\* extension (lines 411-437); acc = [extensions, byExt, additional]
RECURSIVE closureInner(_, _, _, _, _)
closureInner(extension, sels, inNew, k, acc) ==
  IF k > Len(sels) THEN acc
  ELSE
    LET complex      == sels[k]
        newExtension == withExtender(extension, complex)
        sources      == acc.extensions[extension.target]
    IN  IF hasKey(sources, complex) THEN
          closureInner(extension, sels, inNew, k + 1,
            [acc EXCEPT !.extensions = MapPut(acc.extensions, extension.target,
                 mapInsert(sources, complex,
                           mergeExtension(mapGet(sources, complex), newExtension)))])
        ELSE
          closureInner(extension, sels, inNew, k + 1,
            [extensions |-> MapPut(acc.extensions, extension.target,
                                   mapInsert(sources, complex, newExtension)),
             byExt      |-> pushByExtender(acc.byExt, complex.v, newExtension),
             additional |-> IF inNew
                              THEN MapPut(acc.additional, extension.target,
                                     mapInsert(MapGet(acc.additional, extension.target, <<>>),
                                               complex, newExtension))
                              ELSE acc.additional])

\* getting rid of every version
eraseAllVersions(sources, extender, containsExtension) == <<>>

\* the old version of an extender that was replaced is erased (lines 439-444)
eraseOldVersion(sources, extender, containsExtension) ==
  IF ~containsExtension THEN mapErase(sources, extender) ELSE sources

\* the maps after the selectors r.res that replace the extender of extension
\* were registered (in1) and its old version was erased
closed(extension, acc, r, in1) ==
  [st |-> "ok",
   extensions |-> MapPut(in1.extensions, extension.target,
                    eraseOldVersion(in1.extensions[extension.target], extension.extender,
                                    CplxEq(r.res[1], extension.extender))),
   byExt |-> in1.byExt,
   originals |-> acc.originals \cup r.newOrig,
   additional |-> in1.additional]

RECURSIVE extendExistingExtensions(_, _, _, _, _, _)

\* one round of the loop, extendComplex having returned r for the extender
extendExistingExtension(oldExtensions, newExtensions, ss, n, x, acc, r) ==
  IF r.st # "ok" THEN [acc EXCEPT !.st = r.st]
  ELSE extendExistingExtensions(oldExtensions, newExtensions, ss, n, x + 1,
         IF r.res = <<>> THEN acc
         ELSE closed(oldExtensions[x], acc, r,
                closureInner(oldExtensions[x], r.res,
                             oldExtensions[x].target \in DOMAIN newExtensions, 1,
                             [extensions |-> acc.extensions, byExt |-> acc.byExt,
                              additional |-> acc.additional])))

\* extendExistingExtensions(oldExtensions, newExtensions); acc = [st, extensions,
\* byExt, originals, additional]
extendExistingExtensions(oldExtensions, newExtensions, ss, n, x, acc) ==
  IF x > Len(oldExtensions) THEN acc
  ELSE extendExistingExtension(oldExtensions, newExtensions, ss, n, x, acc,
         extendComplex(oldExtensions[x].extender, newExtensions,
                       oldExtensions[x].mediaContext, NORMAL, ss, acc.originals,
                       <<n, 0, x>>))

\* mapCopyExts(dest, source)
RECURSIVE copyEntry(_, _, _)
copyEntry(entry, inner, k) ==
  IF k > Len(inner) THEN entry
  ELSE copyEntry(mapInsert(entry, inner[k].extender, inner[k]), inner, k + 1)

mapCopyExts(dest, source) ==
  [key \in (DOMAIN dest) \cup (DOMAIN source) |->
     IF key \notin DOMAIN source THEN dest[key]
     ELSE IF key \notin DOMAIN dest THEN source[key]
     ELSE copyEntry(dest[key], source[key], 1)]

\* a rule whose list is never taken to have been extended
wasExtendedNever(oldValue, ext) == FALSE

\* !ObjEqualityFn(oldValue, ext): the rule is updated and registered again
wasExtended(oldValue, ext) == ~ListEq(oldValue, ext)

\* the rule after extendList returned ext for its list oldValue
extendedRule(oldValue, ext) ==
  [st |-> ext.st, origs |-> ext.origs,
   changed |-> ext.st = "ok" /\ wasExtended(oldValue, ext.res),
   list |-> ext.res]

\* what extendExistingStyleRules does with one rule: [st, list, origs, changed]
extendRule(E, rule, newExtensions, origs, n) ==
  extendedRule(E.lists[rule],
    extendList(E.lists[rule], newExtensions, MapGet(E.mediaContexts, rule, Null), NORMAL,
               E.sourceSpecificity, origs, <<n, rule>>))

\* the rules that were extended among done
changedRules(res, done) == {h \in done : res[h].changed}

\* the Extender after the rules in done were visited with the results res;
\* more is what a rule that threw had inserted into originals
extendedRules(E, res, done, st, more) ==
  [st |-> st,
   E  |-> [E EXCEPT
            !.originals = E.originals \cup more \cup UNION {res[rule].origs : rule \in done},
            !.lists = [h \in DOMAIN E.lists |->
                         IF h \in changedRules(res, done) THEN res[h].list ELSE E.lists[h]],
            !.selectors = [s \in (DOMAIN E.selectors)
                                 \cup UNION {simplesOf(res[h].list) :
                                               h \in changedRules(res, done)} |->
                             MapGet(E.selectors, s, {})
                             \cup {h \in changedRules(res, done) :
                                     s \in simplesOf(res[h].list)}]]]

\* the outcomes of the loop over the rules, res[rule] being the outcome for rule
outcomes(E, rules, res) ==
  IF \A rule \in rules : res[rule].st = "ok"
    THEN {extendedRules(E, res, rules, "ok", {})}
    ELSE {extendedRules(E, res, done, res[f].st, res[f].origs) :
            f \in {rule \in rules : res[rule].st # "ok"},
            done \in SUBSET {rule \in rules : res[rule].st = "ok"}}

\* extendExistingStyleRules(rules, newExtensions): the set of outcomes, one for
\* each order in which the unordered set of rules may be visited, as far as
\* the orders differ in their outcome
extendExistingStyleRules(E, rules, newExtensions, n) ==
  outcomes(E, rules,
           [rule \in rules |-> extendRule(E, rule, newExtensions, E.originals, n)])

\* the Extender with nothing registered
registeredNothing(E, exts, byExt, ss, origs) == E

\* the Extender with what the loops of addExtension registered
registered(E, exts, byExt, ss, origs) ==
  [E EXCEPT !.extensions = exts, !.extensionsByExtender = byExt,
            !.sourceSpecificity = ss, !.originals = origs]

\* addExtension leaving the existing style rules as they are
addedToNoRule(E, target, hasRule, newExtensions, n) == {[st |-> "ok", E |-> E]}

\* the end of addExtension: the existing style rules are extended
addedExtensions(E, target, hasRule, newExtensions, n) ==
  IF hasRule THEN extendExistingStyleRules(E, E.selectors[target], newExtensions, n)
  ELSE {[st |-> "ok", E |-> E]}

\* addExtension after the existing extensions were extended with outcome c
closedExtensions(E, target, hasRule, newExtensionsByTarget, c, n) ==
  IF c.st # "ok"
    THEN {[st |-> c.st,
           E  |-> registered(E, c.extensions, c.byExt, E.sourceSpecificity, c.originals)]}
    ELSE addedExtensions(
           registered(E, c.extensions, c.byExt, E.sourceSpecificity, c.originals),
           target, hasRule, mapCopyExts(newExtensionsByTarget, c.additional), n)

\* addExtension after its loop over the extender registered E and newExtensions
registeredExtensions(E, target, hasRule, hasExistingExtensions, newExtensions, n) ==
  IF newExtensions = <<>> THEN {[st |-> "ok", E |-> E]}
  ELSE closedExtensions(E, target, hasRule, MapPut(<<>>, target, newExtensions),
         IF hasExistingExtensions /\ E.extensionsByExtender[target] # <<>>
           THEN extendExistingExtensions(E.extensionsByExtender[target],
                  MapPut(<<>>, target, newExtensions), E.sourceSpecificity, n, 1,
                  [st |-> "ok", extensions |-> E.extensions,
                   byExt |-> E.extensionsByExtender, originals |-> E.originals,
                   additional |-> <<>>])
           ELSE [st |-> "ok", extensions |-> E.extensions,
                 byExt |-> E.extensionsByExtender, originals |-> E.originals,
                 additional |-> <<>>],
         n)

\* addExtension after its loop over the complex selectors of the extender
extendedBy(E, target, hasRule, hasExistingExtensions, a, n) ==
  registeredExtensions(registered(E, a.extensions, a.byExt, a.ss, E.originals),
                       target, hasRule, hasExistingExtensions, a.newExtensions, n)

\* addExtension(extender, target, extend, mediaQueryContext): the set of outcomes
addExtension(E, extender, target, isOptional, mediaQueryContext, n) ==
  extendedBy(E, target, target \in DOMAIN E.selectors,
             target \in DOMAIN E.extensionsByExtender,
             addExtensionLoop(extender, target, isOptional, mediaQueryContext,
               target \in DOMAIN E.selectors \/ target \in DOMAIN E.extensionsByExtender, 1,
               [extensions |-> MapPut(E.extensions, target,
                                      MapGet(E.extensions, target, <<>>)),
                byExt |-> E.extensionsByExtender, ss |-> E.sourceSpecificity,
                newExtensions |-> <<>>]),
             n)

----------------------------------------------------------------------------
(* The one-shot extend and replace of the selector functions *)

\* the loop over source (lines 111-114): the ordered map of one-off extensions
RECURSIVE oneOffExtenders(_, _)
oneOffExtenders(source, entry) ==
  IF source = <<>> THEN entry
  ELSE oneOffExtenders(Tail(source), mapInsert(entry, Head(source), Extension(Head(source))))

\* the originals of a one-shot call: the selectors of the list being extended
oneOffOriginals(selector) == IF ~isInvisible(selector) THEN Range(selector) ELSE {}

\* the variable `selector` after extendList returned r
extendedSelector(acc, r) ==
  [st |-> r.st,
   selector |-> IF r.st = "ok" THEN r.res ELSE acc.selector,
   same |-> acc.same /\ r.same]

\* the loop over targets (lines 116-142); acc = [st, selector, same]: the list
\* the variable `selector` refers to, and whether that is still the object
\* passed in
RECURSIVE extendOrReplaceLoop(_, _, _, _, _)
extendOrReplaceLoop(targets, extenders, mode, k, acc) ==
  IF k > Len(targets) \/ acc.st # "ok" THEN acc
  ELSE extendOrReplaceLoop(targets, extenders, mode, k + 1,
         extendedSelector(acc,
           extendList(acc.selector, [simple \in Range(targets[k].v) |-> extenders], Null,
                      mode, <<>>, oneOffOriginals(acc.selector), <<2, k>>)))

\* extendOrReplace(selector, source, targets, mode): [st, selector, same]
extendOrReplace(selector, source, targets, mode) ==
  extendOrReplaceLoop(targets, oneOffExtenders(source, <<>>), mode, 1,
                      [st |-> "ok", selector |-> selector, same |-> TRUE])

----------------------------------------------------------------------------
(* The stylesheets of the model: what the evaluator hands to the Extender  *)

A == Cls("a")
B == Cls("b")
C == Cls("c")
P == Cls("p")

\* a selector list of one complex selector
L1(v) == <<v>>

\* The stylesheets: the selector lists of their style rules (lists of
\* compounds), the targets of their @extend directives, the media contexts of
\* their rules (null at top level) and whether their @extend are !optional
Sheets ==
  { [name |-> "chain",
     rules |-> {L1(<<A>>), L1(<<B>>), L1(<<C>>)},
     targets |-> {A, B}, media |-> {Null}, optional |-> {FALSE}],
    [name |-> "compound",
     rules |-> {L1(<<A, C>>), L1(<<B>>)},
     targets |-> {A, C}, media |-> {Null}, optional |-> {TRUE}],
    [name |-> "twice",
     rules |-> {L1(<<A>>), << <<B, C>>, <<B>> >>},
     targets |-> {A}, media |-> {Null}, optional |-> {FALSE}],
    [name |-> "not",
     rules |-> {L1(<<B, NotSel(L1(<<B>>))>>)},
     targets |-> {A, B}, media |-> {Null}, optional |-> {TRUE}],
    [name |-> "negation",
     rules |-> {L1(<<C, NotSel(L1(<<A>>))>>), L1(<<B>>)},
     targets |-> {A}, media |-> {Null}, optional |-> {TRUE}],
    [name |-> "duplicate",
     rules |-> {<< <<A>>, <<A>> >>, L1(<<B>>)},
     targets |-> {A}, media |-> {Null}, optional |-> {FALSE}],
    [name |-> "media",
     rules |-> {L1(<<A>>), L1(<<B>>)},
     targets |-> {A, B}, media |-> {Null, "print"}, optional |-> {FALSE}],
    [name |-> "placeholder",
     rules |-> {L1(<<P>>), << <<P>>, <<A>> >>},
     targets |-> {P}, media |-> {Null}, optional |-> {TRUE, FALSE}] }

\* the objects of a list the evaluator creates for handle h
newList(h, content) == [i \in DOMAIN content |-> [id |-> <<1, h, i>>, v |-> content[i]]]

----------------------------------------------------------------------------
(* Specification of the durable Extender *)

NoCall == [fn |-> "none"]

NoLast == [n |-> 0, op |-> "init", h |-> 0, target |-> NullSimple, isOptional |-> FALSE,
           mediaContext |-> Null, st |-> "ok", exts |-> 0, readds |-> 0,
           pre |-> EmptyExtender]

Init ==
  /\ lists = <<>>
  /\ selectors = <<>>
  /\ extensions = <<>>
  /\ extensionsByExtender = <<>>
  /\ mediaContexts = <<>>
  /\ sourceSpecificity = <<>>
  /\ originals = {}
  /\ sheet \in Sheets
  /\ declared = <<>>
  /\ directives = {}
  /\ last = NoLast
  /\ call = NoCall

\* the state after a call that ended with st in the Extender out
Becomes(out) ==
  /\ lists' = out.lists
  /\ selectors' = out.selectors
  /\ extensions' = out.extensions
  /\ extensionsByExtender' = out.extensionsByExtender
  /\ mediaContexts' = out.mediaContexts
  /\ sourceSpecificity' = out.sourceSpecificity
  /\ originals' = out.originals

Running == last.st = "ok" /\ call = NoCall

\* the evaluator compiles a style rule: it creates the selector list and calls
\* addSelector
AddSelector ==
  /\ Running
  /\ Len(lists) < MaxRules
  /\ \E content \in sheet.rules, mediaContext \in sheet.media :
       \E h \in {Len(lists) + 1} :
       \E E0 \in {[Extender EXCEPT !.lists = Append(lists, newList(h, content))]} :
       \E r \in {addSelector(E0, h, mediaContext, last.n + 1)} :
           /\ Becomes(r.E)
           /\ declared' = Append(declared, content)
           /\ last' = [last EXCEPT !.n = @ + 1, !.op = "addSelector", !.h = h,
                                   !.target = NullSimple, !.isOptional = FALSE,
                                   !.mediaContext = mediaContext,
                                   !.st = r.st, !.pre = E0]
  /\ UNCHANGED <<sheet, directives, call>>

\* addSelector is called a second time with the list and the media context of
\* the call before
ReAddSelector ==
  /\ Running
  /\ last.readds < MaxReAdd
  /\ last.op \in {"addSelector", "reAddSelector"}
  /\ \E r \in {addSelector(Extender, last.h, last.mediaContext, last.n + 1)} :
       /\ Becomes(r.E)
       /\ last' = [last EXCEPT !.n = @ + 1, !.op = "reAddSelector",
                               !.target = NullSimple, !.isOptional = FALSE,
                               !.st = r.st, !.readds = @ + 1, !.pre = Extender]
  /\ UNCHANGED <<sheet, declared, directives, call>>

\* the evaluator reaches an @extend in the body of the style rule it compiled
\* last: the extender is the rule's selector list, the media context the rule's
AddExtension ==
  /\ Running
  /\ last.exts < MaxExts
  /\ lists # <<>>
  /\ \E target \in sheet.targets, isOptional \in sheet.optional :
       \E h \in {Len(lists)} :
       \E mediaContext \in {MapGet(mediaContexts, h, Null)} :
       \E r \in addExtension(Extender, lists[h], target, isOptional, mediaContext,
                             last.n + 1) :
           /\ Becomes(r.E)
           /\ directives' = directives \cup {<<h, target>>}
           /\ last' = [last EXCEPT !.n = @ + 1, !.op = "addExtension", !.h = h,
                                   !.target = target, !.isOptional = isOptional,
                                   !.mediaContext = mediaContext,
                                   !.st = r.st, !.exts = @ + 1, !.pre = Extender]
  /\ UNCHANGED <<sheet, declared, call>>

Next == AddSelector \/ ReAddSelector \/ AddExtension

Spec == Init /\ [][Next]_vars

----------------------------------------------------------------------------
(* Specification of trim on its own: the candidates, the originals and the *)
(* source specificities are drawn from bounded sets                        *)

\* no stylesheet: the function is called on its own
NoSheet == [name |-> "none", rules |-> {}, targets |-> {}, media |-> {}, optional |-> {}]

\* the compounds of the candidates
TrimValues == {<<A>>, <<B>>, <<A, B>>, <<B, A>>, <<A, B, C>>}

\* the sourceSpecificity maps: empty, or a specificity for each class
TrimSpecificities ==
  {<<>>} \cup [{A, B, C} -> {ClassSpecificity, 2 * ClassSpecificity}]

\* candidate lists of distinct objects with the given values
candidates(values) == [i \in DOMAIN values |-> [id |-> <<1, 1, i>>, v |-> values[i]]]

\* a list longer than trim's limit: TrimLimit + 1 copies of .a and .a.b in turn
longCandidates ==
  [i \in 1..(TrimLimit + 1) |->
     [id |-> <<1, 1, i>>, v |-> IF i % 2 = 1 THEN <<A>> ELSE <<A, B>>]]

StandAlone ==
  /\ lists = <<>>
  /\ selectors = <<>>
  /\ extensions = <<>>
  /\ extensionsByExtender = <<>>
  /\ mediaContexts = <<>>
  /\ sourceSpecificity = <<>>
  /\ originals = {}
  /\ sheet = NoSheet
  /\ declared = <<>>
  /\ directives = {}
  /\ last = NoLast

InitTrim ==
  /\ StandAlone
  /\ \/ \E len \in 0..MaxCand : \E values \in [1..len -> TrimValues] :
          \E existing \in SUBSET Range(candidates(values)), ss \in TrimSpecificities :
            call = [fn |-> "trim", st |-> "called", selectors |-> candidates(values),
                    existing |-> existing, ss |-> ss, res |-> <<>>]
     \/ \E existing \in SUBSET {longCandidates[1], longCandidates[2]} :
          call = [fn |-> "trim", st |-> "called", selectors |-> longCandidates,
                  existing |-> existing, ss |-> <<>>, res |-> <<>>]

\* trim(selectors, existing) runs for the Extender whose sourceSpecificity is ss
Trim ==
  /\ call.fn = "trim"
  /\ call.st = "called"
  /\ \E t \in {trim(call.selectors, call.existing, call.ss)} :
       call' = [call EXCEPT !.st = t.st, !.res = t.res]
  /\ UNCHANGED <<lists, selectors, extensions, extensionsByExtender, mediaContexts,
                 sourceSpecificity, originals, sheet, declared, directives, last>>

NextTrim == Trim

SpecTrim == InitTrim /\ [][NextTrim]_vars

----------------------------------------------------------------------------
(* Specification of the selector functions selector-extend and             *)
(* selector-replace, which call Extender::extend and Extender::replace     *)

\* the arguments: selector lists as lists of compounds
OneShotSelectors ==
  { L1(<<A>>), L1(<<A, B>>), << <<A>>, <<B>> >>, L1(<<P>>), << <<A, B>>, <<A>> >> }

OneShotSources == { L1(<<C>>), L1(<<B>>), << <<C>>, <<A>> >> }

OneShotTargets == { L1(<<A>>), L1(<<A, B>>), L1(<<C>>), << <<A>>, <<B>> >> }

\* the objects of the argument lists: list 1 is selector, 2 source, 3 targets
argList(which, content) ==
  [i \in DOMAIN content |-> [id |-> <<1, which, i>>, v |-> content[i]]]

InitOneShot ==
  /\ StandAlone
  /\ \E selector \in OneShotSelectors, source \in OneShotSources,
        targets \in OneShotTargets, mode \in {TARGETS, REPLACE} :
       call = [fn |-> "extendOrReplace", st |-> "called", mode |-> mode,
               selector |-> argList(1, selector), source |-> argList(2, source),
               targets |-> argList(3, targets), res |-> <<>>, same |-> FALSE]

\* Extender::extend (mode TARGETS) and Extender::replace (mode REPLACE)
ExtendOrReplace ==
  /\ call.fn = "extendOrReplace"
  /\ call.st = "called"
  /\ \E r \in {extendOrReplace(call.selector, call.source, call.targets, call.mode)} :
       call' = [call EXCEPT !.st = r.st, !.res = r.selector, !.same = r.same]
  /\ UNCHANGED <<lists, selectors, extensions, extensionsByExtender, mediaContexts,
                 sourceSpecificity, originals, sheet, declared, directives, last>>

NextOneShot == ExtendOrReplace

SpecOneShot == InitOneShot /\ [][NextOneShot]_vars

----------------------------------------------------------------------------
(* Properties *)

\* trim's restart budget is never what ends a trim
NoFuel == last.st # "fuel" /\ (call.fn # "none" => call.st # "fuel")

\* every original among the candidates is in the result
ReturnedOriginals ==
  \A i \in DOMAIN call.selectors :
    call.selectors[i] \in call.existing => InList(call.res, call.selectors[i].v)

\* C1: whenever trim returns, every candidate that is in `existing` (the
\* originals) is present, equal by value, in the list it returns.
C1_TrimKeepsOriginals ==
  (call.fn = "trim" /\ call.st = "ok") => ReturnedOriginals

\* trim returned a shorter list, and kept an original that another candidate
\* would have displaced had it not been an original
C1_Witness ==
  /\ call.fn = "trim" /\ call.st = "ok"
  /\ Len(call.res) < Len(call.selectors)
  /\ \E i, k \in DOMAIN call.selectors :
       /\ i # k
       /\ call.selectors[i] \in call.existing
       /\ call.selectors[k] \notin call.existing
       /\ ~CplxEq(call.selectors[k], call.selectors[i])
       /\ dontTrimComplex(call.selectors[k], call.selectors[i],
                          maxSourceSpecificity(call.ss, call.selectors[i].v))
       /\ InList(call.res, call.selectors[i].v)

----------------------------------------------------------------------------
(* Properties of the durable Extender; last.pre is the Extender the call   *)
(* of last.op was made on                                                   *)

\* the media context list h is registered under
contextOf(E, h) == MapGet(E.mediaContexts, h, Null)

\* the call was an addSelector, first or repeated
IsAddSelector == last.op \in {"addSelector", "reAddSelector"}

\* C2: an addExtension made under a media context leaves the list of every
\* rule registered under a different media context as it was (whether it
\* returns or fails with ExtendAcrossMedia); a null context counts as a
\* context of its own.
C2_MediaIsolation ==
  last.op = "addExtension" =>
    \A h \in DOMAIN last.pre.lists :
      contextOf(last.pre, h) # last.mediaContext => lists[h] = last.pre.lists[h]

\* a top-level @extend has changed the list of a rule inside @media
C2_Witness ==
  /\ last.op = "addExtension" /\ last.st = "ok" /\ last.mediaContext = Null
  /\ \E h \in DOMAIN last.pre.lists :
       /\ contextOf(last.pre, h) # Null
       /\ Len(lists[h]) > Len(last.pre.lists[h])

\* C3 as stated: after an optional addExtension every selector that was in a
\* rule's list is still in it.
C3_OptionalKeepsSelectors ==
  (last.op = "addExtension" /\ last.isOptional) =>
    \A h \in DOMAIN last.pre.lists : \A i \in DOMAIN last.pre.lists[h] :
      InList(lists[h], last.pre.lists[h][i].v)

\* a compound without selector pseudos such as :not(...)
noSelectorPseudo(v) == \A x \in DOMAIN v : ~isSelectorPseudo(v[x])

\* C3: after an optional addExtension every selector without selector pseudos
\* that was in a rule's list is still in it or has a superselector in it.
C3_OptionalKeepsCoverage ==
  (last.op = "addExtension" /\ last.isOptional) =>
    \A h \in DOMAIN last.pre.lists : \A i \in DOMAIN last.pre.lists[h] :
      noSelectorPseudo(last.pre.lists[h][i].v) =>
        \E k \in DOMAIN lists[h] :
          isSuperselectorOf(lists[h][k].v, last.pre.lists[h][i].v)

\* an optional addExtension has made a selector disappear from a rule's list,
\* which holds a superselector of it
C3_Witness ==
  /\ last.op = "addExtension" /\ last.isOptional /\ last.st = "ok"
  /\ \E h \in DOMAIN last.pre.lists : \E i \in DOMAIN last.pre.lists[h] :
       /\ ~InList(lists[h], last.pre.lists[h][i].v)
       /\ \E k \in DOMAIN lists[h] :
            isSuperselectorOf(lists[h][k].v, last.pre.lists[h][i].v)

\* C4: a second addSelector with the list and the media context of the first,
\* and no addExtension in between, leaves the list with the same sequence of
\* complex selectors.
C4_ReAddSelectorSame ==
  (last.op = "reAddSelector" /\ last.st = "ok") =>
    Values(lists[last.h]) = Values(last.pre.lists[last.h])

\* a second addSelector returned for a list that extensions had extended
C4_Witness ==
  /\ last.op = "reAddSelector" /\ last.st = "ok"
  /\ Len(last.pre.lists[last.h]) > Len(declared[last.h])

\* the rules declared with the one selector v
declaredAs(v) == {h \in DOMAIN declared : declared[h] = L1(v)}

\* the rule of list h has had the directive @extend target evaluated
extends(h, target) == <<h, target>> \in directives

\* the rules .a, .b {@extend .a} and .c {@extend .b} have all been evaluated
chains(R, hb, hc) ==
  /\ R \in declaredAs(<<A>>) /\ hb \in declaredAs(<<B>>) /\ hc \in declaredAs(<<C>>)
  /\ extends(hb, A) /\ extends(hc, B)

\* C5: when the rules .a, .b {@extend .a} and .c {@extend .b} have been
\* evaluated, in whatever order, the list of .a contains .a, .b and .c; when
\* they are the whole stylesheet and were declared in this order the list is
\* exactly .a, .b, .c.
C5_Transitive ==
  last.st = "ok" =>
    \A R, hb, hc \in DOMAIN lists :
      chains(R, hb, hc) =>
        /\ InList(lists[R], <<A>>) /\ InList(lists[R], <<B>>) /\ InList(lists[R], <<C>>)
        /\ (R < hb /\ hb < hc /\ Len(lists) = 3 /\ Cardinality(directives) = 2)
             => Values(lists[R]) = <<<<A>>, <<B>>, <<C>>>>

\* the chain has been evaluated in the order .a, .b {@extend .a},
\* .c {@extend .b}, and the list of .a has become .a, .b, .c
C5_Witness ==
  /\ last.st = "ok" /\ last.op = "addExtension"
  /\ chains(1, 2, 3)
  /\ Values(last.pre.lists[1]) = <<<<A>>, <<B>>>>
  /\ Values(lists[1]) = <<<<A>>, <<B>>, <<C>>>>

\* a new extension meets a rule (addExtension) or the rule meets an extension
\* (addSelector) of a media context that is not null and not the rule's
mediaMismatch ==
  \/ /\ last.op = "addExtension" /\ last.mediaContext # Null
     /\ \E i \in DOMAIN last.pre.lists[last.h] :
          ~hasKey(MapGet(last.pre.extensions, last.target, <<>>), last.pre.lists[last.h][i])
     /\ \E h \in DOMAIN last.pre.lists :
          /\ contextOf(last.pre, h) # last.mediaContext
          /\ last.target \in simplesOf(last.pre.lists[h])
  \/ /\ IsAddSelector
     /\ \E T \in DOMAIN last.pre.extensions : \E k \in DOMAIN last.pre.extensions[T] :
          /\ T \in simplesOf(last.pre.lists[last.h])
          /\ last.pre.extensions[T][k].mediaContext \notin {Null, last.mediaContext}

C7_AllRecorded ==
  (IsAddSelector /\ last.st = "ok") =>
    Range(last.pre.lists[last.h]) \subseteq originals

\* C7: after addSelector every complex selector of a list that is not
\* invisible is in originals; of an invisible list the call adds none.
C7_VisibleRecorded ==
  (IsAddSelector /\ last.st = "ok") =>
    IF ~isInvisible(last.pre.lists[last.h])
      THEN Range(last.pre.lists[last.h]) \subseteq originals
      ELSE Range(last.pre.lists[last.h]) \cap originals
             = Range(last.pre.lists[last.h]) \cap last.pre.originals

\* addSelector returned for a list of placeholder selectors and for a list
\* with a visible selector
C7_Witness ==
  /\ IsAddSelector /\ last.st = "ok"
  /\ last.pre.lists[last.h] # <<>>
  /\ isInvisible(last.pre.lists[last.h])
  /\ Range(last.pre.lists[last.h]) \cap originals = {}
  /\ \E h \in DOMAIN lists : h # last.h /\ Range(last.pre.lists[h]) \cap originals # {}

\* C8 as stated: an entry of extensions[T] for extender E is there in every
\* later state.
C8_NeverRemoved ==
  [][\A T \in DOMAIN extensions : \A k \in DOMAIN extensions[T] :
       /\ T \in DOMAIN extensions'
       /\ hasKey(extensions'[T], extensions[T][k].extender)]_vars

\* the simple selectors of a compound that are no selector pseudos
plainSimples(v) == {v[i] : i \in {x \in DOMAIN v : ~isSelectorPseudo(v[x])}}

\* the entry for extender E may have been replaced by the one for extender F:
\* E has a selector pseudo and the target of the call among its simple
\* selectors, and F has the simple selectors of E that are no selector pseudos
replacedBy(E, F, target) ==
  /\ target \in Range(E.v)
  /\ \E i \in DOMAIN E.v : isSelectorPseudo(E.v[i])
  /\ plainSimples(E.v) \subseteq Range(F.v)

\* C8: addSelector leaves extensions as it is; addExtension keeps the entry
\* of extensions[T] for extender E unless E has a selector pseudo and the
\* target of the new extension among its simple selectors, and then it
\* leaves an entry for a selector with the other simple selectors of E.
C8_KeptOrReplaced ==
  [][/\ last'.op \in {"addSelector", "reAddSelector"} => extensions' = extensions
     /\ \A T \in DOMAIN extensions : \A k \in DOMAIN extensions[T] :
          /\ T \in DOMAIN extensions'
          /\ \/ hasKey(extensions'[T], extensions[T][k].extender)
             \/ \E j \in DOMAIN extensions'[T] :
                  replacedBy(extensions[T][k].extender, extensions'[T][j].extender,
                             last'.target)]_vars

\* an addExtension replaced the entry of an extender
C8_Witness ==
  /\ last.op = "addExtension" /\ last.st = "ok"
  /\ \E T \in DOMAIN last.pre.extensions : \E k \in DOMAIN last.pre.extensions[T] :
       /\ ~hasKey(extensions[T], last.pre.extensions[T][k].extender)
       /\ \E j \in DOMAIN extensions[T] :
            replacedBy(last.pre.extensions[T][k].extender, extensions[T][j].extender,
                       last.target)

\* C9: extend and replace return a list object other than the one passed in,
\* with the elements of that one as they were, and change nothing of the
\* durable Extender.
C9_FreshList ==
  (call.fn = "extendOrReplace" /\ call.st = "ok") =>
    /\ ~call.same
    /\ call.selector = argList(1, Values(call.selector))
    /\ Extender = EmptyExtender

\* extend returned for targets that occur nowhere in the selector
C9_Witness ==
  /\ call.fn = "extendOrReplace" /\ call.st = "ok"
  /\ \A k \in DOMAIN call.targets :
       Range(call.targets[k].v) \cap simplesOf(call.selector) = {}

\* target occurs in no list and in no extender of Extender E
unmatched(E, target) ==
  /\ \A h \in DOMAIN E.lists : target \notin simplesOf(E.lists[h])
  /\ \A T \in DOMAIN E.extensions : \A k \in DOMAIN E.extensions[T] :
       target \notin simplesOfNested(<<E.extensions[T][k].extender.v>>)

\* C10: addExtension for a target that occurs in no registered list and in no
\* extender returns, leaves lists, selectors, mediaContexts and originals as
\* they were, and leaves in extensions[target] an entry for each complex
\* selector of the extender.
C10_UnmatchedTarget ==
  (last.op = "addExtension" /\ unmatched(last.pre, last.target)) =>
    /\ last.st = "ok"
    /\ lists = last.pre.lists
    /\ selectors = last.pre.selectors
    /\ mediaContexts = last.pre.mediaContexts
    /\ originals = last.pre.originals
    /\ last.target \in DOMAIN extensions
    /\ \A i \in DOMAIN last.pre.lists[last.h] :
         hasKey(extensions[last.target], last.pre.lists[last.h][i])
    /\ \A T \in DOMAIN last.pre.extensions : T \in DOMAIN extensions
    /\ \A s \in DOMAIN last.pre.sourceSpecificity :
         s \in DOMAIN sourceSpecificity
           /\ sourceSpecificity[s] = last.pre.sourceSpecificity[s]

\* an addExtension for an unmatched target was made while rules were registered
C10_Witness ==
  /\ last.op = "addExtension" /\ unmatched(last.pre, last.target)
  /\ last.st = "ok"
  /\ Len(lists) >= 2
  /\ Len(extensions[last.target]) > Len(MapGet(last.pre.extensions, last.target, <<>>))

----------------------------------------------------------------------------
(* SourceMap: the positions recorded while output is emitted, and their    *)
(* serialisation to the "mappings" string (source_map.cpp)                 *)

MaxMappings == 2    \* mappings recorded in one SourceMap
MaxLine == 2        \* highest output line reached
MaxColumn == 4      \* highest output column reached

\* the Base64 alphabet
Base64 ==
  << "A", "B", "C", "D", "E", "F", "G", "H", "I", "J", "K", "L", "M", "N", "O", "P",
     "Q", "R", "S", "T", "U", "V", "W", "X", "Y", "Z", "a", "b", "c", "d", "e", "f",
     "g", "h", "i", "j", "k", "l", "m", "n", "o", "p", "q", "r", "s", "t", "u", "v",
     "w", "x", "y", "z", "0", "1", "2", "3", "4", "5", "6", "7", "8", "9", "+", "/" >>

\* Base64VLQ::encode: the sign goes to the lowest bit, then groups of five
\* bits, lowest first, each with a continuation bit (32) unless it is the last
RECURSIVE vlqDigits(_)
vlqDigits(vlq) ==
  IF vlq \div 32 = 0 THEN <<Base64[(vlq % 32) + 1]>>
  ELSE <<Base64[(vlq % 32) + 32 + 1]>> \o vlqDigits(vlq \div 32)

encode(number) ==
  vlqDigits(IF number < 0 THEN 2 * (0 - number) + 1 ELSE 2 * number)

\* std::string(n, ';')
RECURSIVE semicolons(_)
semicolons(n) == IF n = 0 THEN <<>> ELSE <<";">> \o semicolons(n - 1)

\* std::count(text.begin(), text.end(), '\n')
RECURSIVE countLf(_)
countLf(text) ==
  IF text = <<>> THEN 0
  ELSE (IF Head(text) = "\n" THEN 1 ELSE 0) + countLf(Tail(text))

\* text.find_last_of('\n'): the 0-based index, or -1 for string::npos
RECURSIVE findLastLf(_)
findLastLf(text) ==
  IF text = <<>> THEN 0 - 1
  ELSE IF text[Len(text)] = "\n" THEN Len(text) - 1
  ELSE findLastLf(SubSeq(text, 1, Len(text) - 1))

Position(file, line, column) == [file |-> file, line |-> line, column |-> column]

Mapping(original_position, generated_position, type) ==
  [original_position |-> original_position,
   generated_position |-> generated_position, type |-> type]

\* the five fields of one mapping, and the separator written before them (the
\* positions stay far below the range of int, so the casts change nothing);
\* prev is <<generated_line, generated_column, original_line,
\* original_column, original_file, original_type>> of the previous round
separator(i, generated_line, prev) ==
  IF generated_line # prev[1]
    THEN (IF generated_line > prev[1] THEN semicolons(generated_line - prev[1]) ELSE <<>>)
    ELSE (IF i > 1 THEN <<",">> ELSE <<>>)

segment(m, previous_generated_column, prev) ==
  encode((m.generated_position.column - 1) - previous_generated_column)
    \o encode((m.original_position.file - 1) - prev[5])
    \o encode((m.original_position.line - 1) - prev[3])
    \o encode((m.original_position.column - 1) - prev[4])
    \o encode(m.type - prev[6])

RECURSIVE serializeFrom(_,_,_,_)
serializeFrom(mappings, i, prev, result) ==
  IF i > Len(mappings) THEN result
  ELSE serializeFrom(mappings, i + 1,
         << IF mappings[i].generated_position.line - 1 > prev[1]
              THEN mappings[i].generated_position.line - 1 ELSE prev[1],
            mappings[i].generated_position.column - 1,
            mappings[i].original_position.line - 1,
            mappings[i].original_position.column - 1,
            mappings[i].original_position.file - 1,
            mappings[i].type >>,
         result \o separator(i, mappings[i].generated_position.line - 1, prev)
                \o segment(mappings[i],
                           IF mappings[i].generated_position.line - 1 # prev[1]
                             THEN 0 ELSE prev[2],
                           prev))

\* SourceMap::serialize_mappings
serialize_mappings(mappings) ==
  serializeFrom(mappings, 1, <<0, 0, 0, 0, 0, 0>>, <<>>)

\* SourceMap::remove_line: the new output_position, or a throw
remove_line(output_position, buffer) ==
  IF output_position.line > 1
    THEN [st |-> "ok",
          output_position |->
            [output_position EXCEPT
               !.line = output_position.line - 1,
               !.column = IF findLastLf(buffer) # 0 - 1
                            THEN Len(buffer) - findLastLf(buffer)
                            ELSE Len(buffer) - 0]]
    ELSE [st |-> "throw", output_position |-> output_position]

\* SourceMap::update_position
update_position(output_position, text) ==
  [output_position EXCEPT
     !.line = output_position.line + countLf(text),
     !.column = IF countLf(text) = 0
                  THEN output_position.column + Len(text)
                  ELSE Len(text) - findLastLf(text)]

\* SourceMap::add_mapping(Position position, size_t type)
add_mapping(mappings, output_position, position, type) ==
  Append(mappings, Mapping(position, output_position, type))

\* the texts emitted, the buffers handed to remove_line, the positions and
\* types of the nodes mapped
Texts == { <<"a">>, <<"a", "b">>, <<"\n">>, <<"a", "\n", "b">> }

Buffers == { <<>>, <<"a", "b">>, <<"a", "\n", "b">> }

OriginalPositions == { Position(1, 1, 1), Position(1, 2, 18), Position(2, 1, 3) }

MappingTypes == { 0, 1 }

\* SourceMap::SourceMap
InitSourceMap ==
  /\ StandAlone
  /\ call = [fn |-> "SourceMap", st |-> "ok", output_position |-> Position(0, 1, 1),
             mappings |-> <<>>, result |-> <<>>, serialized |-> FALSE]

Emitting == call.fn = "SourceMap" /\ call.st = "ok" /\ ~call.serialized

UpdatePosition ==
  /\ Emitting
  /\ \E text \in Texts : \E p \in {update_position(call.output_position, text)} :
       /\ p.line <= MaxLine
       /\ p.column <= MaxColumn
       /\ call' = [call EXCEPT !.output_position = p]
  /\ UNCHANGED <<lists, selectors, extensions, extensionsByExtender, mediaContexts,
                 sourceSpecificity, originals, sheet, declared, directives, last>>

AddMapping ==
  /\ Emitting
  /\ Len(call.mappings) < MaxMappings
  /\ \E position \in OriginalPositions, type \in MappingTypes :
       call' = [call EXCEPT !.mappings =
                  add_mapping(call.mappings, call.output_position, position, type)]
  /\ UNCHANGED <<lists, selectors, extensions, extensionsByExtender, mediaContexts,
                 sourceSpecificity, originals, sheet, declared, directives, last>>

RemoveLine ==
  /\ Emitting
  /\ \E buffer \in Buffers : \E r \in {remove_line(call.output_position, buffer)} :
       /\ r.output_position.column <= MaxColumn
       /\ call' = [call EXCEPT !.st = r.st, !.output_position = r.output_position]
  /\ UNCHANGED <<lists, selectors, extensions, extensionsByExtender, mediaContexts,
                 sourceSpecificity, originals, sheet, declared, directives, last>>

\* SourceMap::generate_source_map, as far as the "mappings" member goes
SerializeMappings ==
  /\ Emitting
  /\ call' = [call EXCEPT !.result = serialize_mappings(call.mappings),
                          !.serialized = TRUE]
  /\ UNCHANGED <<lists, selectors, extensions, extensionsByExtender, mediaContexts,
                 sourceSpecificity, originals, sheet, declared, directives, last>>

NextSourceMap == UpdatePosition \/ AddMapping \/ RemoveLine \/ SerializeMappings

SpecSourceMap == InitSourceMap /\ [][NextSourceMap]_vars

(* Reading a "mappings" string back (Source Map v3): ";" moves to the next  *)
(* generated line and resets the generated column, "," separates the        *)
(* segments of a line, every field of a segment is a delta                  *)

\* the index of a character in the Base64 alphabet
sextet(c) == (CHOOSE k \in DOMAIN Base64 : Base64[k] = c) - 1

\* the value of a Base64-VLQ digit string
fromVlq(vlq) == IF vlq % 2 = 1 THEN 0 - (vlq \div 2) ELSE vlq \div 2

\* a segment is closed: d is the decoder's state, fields the deltas read
closeSegment(d, fields) ==
  IF fields = <<>> THEN d
  ELSE IF Len(fields) # 5 THEN [d EXCEPT !.malformed = TRUE]
  ELSE [d EXCEPT
          !.column = d.column + fields[1],
          !.file = d.file + fields[2],
          !.oline = d.oline + fields[3],
          !.ocolumn = d.ocolumn + fields[4],
          !.out = Append(d.out, <<d.line, d.column + fields[1], d.file + fields[2],
                                  d.oline + fields[3], d.ocolumn + fields[4]>>)]

nextLine(d) == [d EXCEPT !.line = d.line + 1, !.column = 0]

RECURSIVE decodeFrom(_,_,_,_,_,_)
decodeFrom(s, i, d, fields, acc, weight) ==
  IF i > Len(s) THEN closeSegment(d, fields)
  ELSE IF s[i] = ";" THEN decodeFrom(s, i + 1, nextLine(closeSegment(d, fields)), <<>>, 0, 1)
  ELSE IF s[i] = "," THEN decodeFrom(s, i + 1, closeSegment(d, fields), <<>>, 0, 1)
  ELSE IF sextet(s[i]) >= 32
    THEN decodeFrom(s, i + 1, d, fields, acc + (sextet(s[i]) - 32) * weight, weight * 32)
  ELSE decodeFrom(s, i + 1, d, Append(fields, fromVlq(acc + sextet(s[i]) * weight)), 0, 1)

decoded(s) ==
  decodeFrom(s, 1, [line |-> 0, column |-> 0, file |-> 0, oline |-> 0, ocolumn |-> 0,
                    out |-> <<>>, malformed |-> FALSE], <<>>, 0, 1)

\* the recorded sequence, 0-based as the encoder takes it
recorded(mappings) ==
  [i \in DOMAIN mappings |->
     << mappings[i].generated_position.line - 1,
        mappings[i].generated_position.column - 1,
        mappings[i].original_position.file - 1,
        mappings[i].original_position.line - 1,
        mappings[i].original_position.column - 1 >>]

\* C11: decoding the string produced by serialize_mappings yields exactly the
\* recorded sequence of (generated line, generated column, source index,
\* original line, original column), also when a later mapping has a smaller
\* generated line than an earlier one.
C11_RoundTrip ==
  (call.fn = "SourceMap" /\ call.serialized) =>
    /\ ~decoded(call.result).malformed
    /\ decoded(call.result).out = recorded(call.mappings)

\* the round trip restricted to mappings whose generated lines never decrease
nonDecreasing(mappings) ==
  \A i \in DOMAIN mappings : \A j \in DOMAIN mappings :
    i < j => mappings[i].generated_position.line <= mappings[j].generated_position.line

C11_RoundTripForward ==
  (call.fn = "SourceMap" /\ call.serialized /\ nonDecreasing(call.mappings)) =>
    /\ ~decoded(call.result).malformed
    /\ decoded(call.result).out = recorded(call.mappings)

\* a mapping on an earlier generated line was recorded after remove_line and
\* the mappings were serialised
C11_Witness ==
  /\ call.fn = "SourceMap" /\ call.serialized
  /\ Len(call.mappings) = 2
  /\ call.mappings[2].generated_position.line < call.mappings[1].generated_position.line

----------------------------------------------------------------------------
(* Inspect of a Number: the text emitted for a number (inspect.cpp)         *)

MaxPrecision == 2   \* highest configured precision

RECURSIVE Pow10(_)
Pow10(n) == IF n = 0 THEN 1 ELSE 10 * Pow10(n - 1)

Abs(x) == IF x < 0 THEN 0 - x ELSE x

DigitChars == << "0", "1", "2", "3", "4", "5", "6", "7", "8", "9" >>

\* the decimal digits of a natural number
RECURSIVE digitsOf(_)
digitsOf(n) ==
  IF n < 10 THEN <<DigitChars[n + 1]>>
  ELSE Append(digitsOf(n \div 10), DigitChars[(n % 10) + 1])

\* a value is held in hundredths; |value| rounded to p decimals, in units of
\* 10^-p (a tie is rounded to the even neighbour)
roundedTo(q, r, half) ==
  IF r > half \/ (r = half /\ q % 2 = 1) THEN q + 1 ELSE q

scaled(hundredths, p) ==
  IF p >= 2 THEN Abs(hundredths) * Pow10(p - 2)
  ELSE roundedTo(Abs(hundredths) \div Pow10(2 - p), Abs(hundredths) % Pow10(2 - p),
                 Pow10(2 - p) \div 2)

RECURSIVE padded(_,_)
padded(digits, len) == IF Len(digits) >= len THEN digits ELSE padded(<<"0">> \o digits, len)

withPoint(digits, p) ==
  IF p = 0 THEN digits
  ELSE SubSeq(digits, 1, Len(digits) - p) \o <<".">>
         \o SubSeq(digits, Len(digits) - p + 1, Len(digits))

\* ss.precision(p); ss << fixed << value
fixed(hundredths, p) ==
  (IF hundredths < 0 THEN <<"-">> ELSE <<>>)
    \o withPoint(padded(digitsOf(scaled(hundredths, p)), p + 1), p)

\* the loop that drops the '0' characters at the end of d; when d runs empty
\* the loop reads d[-1], which is undefined
RECURSIVE stripZeros(_)
stripZeros(d) ==
  IF d = <<>> THEN [d |-> d, undefined |-> TRUE]
  ELSE IF d[Len(d)] = "0" THEN stripZeros(SubSeq(d, 1, Len(d) - 1))
  ELSE [d |-> d, undefined |-> FALSE]

stripPoint(d) == IF d # <<>> /\ d[Len(d)] = "." THEN SubSeq(d, 1, Len(d) - 1) ELSE d

startsWith(d, prefix) == Len(d) >= Len(prefix) /\ SubSeq(d, 1, Len(prefix)) = prefix

\* d.erase(pos, 1), pos 0-based
erase1(d, pos) == SubSeq(d, 1, pos) \o SubSeq(d, pos + 2, Len(d))

\* the unit conditions under which the number is no CSS value
invalidUnits(n) ==
  \/ Len(n.numerator_units) > 1
  \/ Len(n.denominator_units) > 0
  \/ (Len(n.numerator_units) > 0 /\ \E k \in DOMAIN n.numerator_units[1] :
        n.numerator_units[1][k] \in {"/", "*"})

\* Number::unit for a number with at most one numerator unit
unit(n) == IF Len(n.numerator_units) > 0 THEN n.numerator_units[1] ELSE <<>>

withoutLeadingZero(n, in_declaration_list, d) ==
  IF ~n.zero /\ ~in_declaration_list
    THEN (IF startsWith(d, <<"-", "0", ".">>) THEN erase1(d, 1)
          ELSE IF startsWith(d, <<"0", ".">>) THEN erase1(d, 0)
          ELSE d)
    ELSE d

withoutMinusZero(d) == IF d = <<"-", "0">> THEN <<"0">> ELSE d

zeroAsFraction(n, d) == IF d = <<"0">> /\ n.value # 0 THEN <<"0", ".", "0">> ELSE d

\* the text appended once the zeros are stripped
emitted(n, in_declaration_list, d) ==
  IF invalidUnits(n) THEN [st |-> "error", buffer |-> <<>>]
  ELSE [st |-> "ok",
        buffer |-> zeroAsFraction(n, withoutMinusZero(
                     withoutLeadingZero(n, in_declaration_list, d))) \o unit(n)]

\* the outcomes after the zeros are stripped: where the loop read outside the
\* string, the build may stop the loop there or fail
stripped(n, in_declaration_list, z) ==
  IF z.undefined
    THEN {emitted(n, in_declaration_list, z.d), [st |-> "crash", buffer |-> <<>>]}
    ELSE {emitted(n, in_declaration_list, stripPoint(z.d))}

\* Inspect::operator() for a Number n: the set of possible outcomes
inspectNumber(n, precision, in_declaration_list) ==
  stripped(n, in_declaration_list, stripZeros(fixed(n.value, precision)))

\* the numbers inspected: values in hundredths, units, the leading-zero flag
NumberValues ==
  { 0, 1, 10, 25, 50, 99, 120, 150, 250, 1000, 1050, 10000, 0 - 1, 0 - 50, 0 - 1000 }

NumberUnits ==
  { [numerator_units |-> <<>>, denominator_units |-> <<>>],
    [numerator_units |-> << <<"p", "x">> >>, denominator_units |-> <<>>],
    [numerator_units |-> << <<"p", "x", "*", "e", "m">> >>, denominator_units |-> <<>>],
    [numerator_units |-> <<>>, denominator_units |-> << <<"p", "x">> >>] }

InitInspect ==
  /\ StandAlone
  /\ \E value \in NumberValues, units \in NumberUnits, zero \in BOOLEAN,
        precision \in 0..MaxPrecision, in_declaration_list \in BOOLEAN :
       call = [fn |-> "Inspect", st |-> "called",
               n |-> [value |-> value, numerator_units |-> units.numerator_units,
                      denominator_units |-> units.denominator_units, zero |-> zero],
               precision |-> precision, in_declaration_list |-> in_declaration_list,
               buffer |-> <<>>]

InspectNumber ==
  /\ call.fn = "Inspect"
  /\ call.st = "called"
  /\ \E r \in inspectNumber(call.n, call.precision, call.in_declaration_list) :
       call' = [call EXCEPT !.st = r.st, !.buffer = r.buffer]
  /\ UNCHANGED <<lists, selectors, extensions, extensionsByExtender, mediaContexts,
                 sourceSpecificity, originals, sheet, declared, directives, last>>

NextInspect == InspectNumber

SpecInspect == InitInspect /\ [][NextInspect]_vars

\* the text of a whole number: its sign and the digits of its integer part
wholeNumber(hundredths) ==
  (IF hundredths < 0 THEN <<"-">> ELSE <<>>) \o digitsOf(Abs(hundredths) \div 100)

isWhole(n) == n.value % 100 = 0 /\ n.value # 0

\* C12: when Inspect emits a Number only zeros after the decimal point are
\* stripped: for every precision >= 0 a whole number is emitted with all the
\* digits of its integer part, so 10 and 100 keep their trailing zeros.
C12_IntegerDigitsKept ==
  (call.fn = "Inspect" /\ call.st = "ok" /\ isWhole(call.n)) =>
    call.buffer = wholeNumber(call.n.value) \o unit(call.n)

\* the same for a precision of at least 1
C12_IntegerDigitsKeptWithDecimals ==
  (call.fn = "Inspect" /\ call.st = "ok" /\ isWhole(call.n) /\ call.precision >= 1) =>
    call.buffer = wholeNumber(call.n.value) \o unit(call.n)

\* the number 100 was emitted with precision 0
C12_Witness ==
  /\ call.fn = "Inspect" /\ call.st = "ok"
  /\ call.n.value = 10000 /\ call.precision = 0

----------------------------------------------------------------------------
(* Termination of trim and of addExtension *)

\* C14: Extender::trim terminates for every candidate list and every
\* originals set, also when the list contains an original that equals an
\* original already placed in the result.
C14_TrimTerminates ==
  (call.fn = "trim" /\ call.st # "called") => call.st = "ok"

\* C13: every addExtension call terminates (it returns or throws) in every
\* reachable Extender state, also when the new extension closes a cycle or a
\* rule extends its own selector.
C13_AddExtensionTerminates ==
  last.op = "addExtension" => last.st \in {"ok", "throw"}

\* a rule extends its own selector
selfExtension == \E d \in directives : declared[d[1]] = L1(<<d[2]>>)

\* two rules extend each other
cycle ==
  \E d \in directives : \E e \in directives :
    /\ d[1] # e[1]
    /\ d[2] # e[2]
    /\ declared[d[1]] = L1(<<e[2]>>)
    /\ declared[e[1]] = L1(<<d[2]>>)

\* an addExtension call closed a cycle, and one made a rule extend itself
C13_Witness ==
  /\ last.op = "addExtension" /\ last.st = "ok"
  /\ cycle
  /\ last.pre.extensions # <<>>

C13_WitnessSelf ==
  /\ last.op = "addExtension" /\ last.st = "ok"
  /\ selfExtension

----------------------------------------------------------------------------
(* What trim removes *)

\* the candidates of a finished trim that are not in the returned list
removed == {x \in Range(call.selectors) : x \notin Range(call.res)}

trimReturned == call.fn = "trim" /\ call.st = "ok"

\* complex2 dominates complex1: a superselector whose minimum specificity is
\* at least the maximum source specificity of complex1
dominates(complex2, complex1) ==
  /\ minSpecificity(complex2.v) >= maxSourceSpecificity(call.ss, complex1.v)
  /\ isSuperselectorOf(complex2.v, complex1.v)

\* C15 (as stated): every candidate that trim removes is not in originals and
\* the returned list contains a selector that dominates it.
C15_DominatedByRetained ==
  trimReturned =>
    \A x \in removed :
      /\ x \notin call.existing
      /\ \E k \in DOMAIN call.res : dominates(call.res[k], x)

\* C15 (amended): every candidate that trim removes is not in originals, is
\* dominated by another candidate of the list handed to trim, and the returned
\* list contains a superselector of it.
C15_DominatedByCandidate ==
  trimReturned =>
    \A i \in DOMAIN call.selectors :
      call.selectors[i] \in removed =>
        /\ call.selectors[i] \notin call.existing
        /\ \E j \in DOMAIN call.selectors :
             j # i /\ dominates(call.selectors[j], call.selectors[i])
        /\ \E k \in DOMAIN call.res :
             isSuperselectorOf(call.res[k].v, call.selectors[i].v)

\* trim removed a candidate that only a candidate removed as well dominates
C15_Witness ==
  /\ trimReturned
  /\ \E x \in removed :
       /\ \A k \in DOMAIN call.res : ~dominates(call.res[k], x)
       /\ \E y \in removed : y # x /\ dominates(y, x)

----------------------------------------------------------------------------
(* The reverse index and the extension maps *)

\* C16: for every simple selector s and every selector-list handle h in
\* selectors[s], the current content of h contains s in one of its compounds,
\* directly or inside the nested list of a selector pseudo, also after h was
\* rewritten by extendExistingStyleRules.
C16_IndexedSimplesPresent ==
  \A s \in DOMAIN selectors : \A h \in selectors[s] :
    s \in simplesOf(lists[h])

\* C16 (amended): a handle h is entered under a simple selector s only when
\* the content of h contains s, entries of selectors are never removed, and
\* after every call that returns each simple selector in the content of a
\* registered list has the list's handle in its entry.
C16_IndexedWhenRegistered ==
  [][ /\ \A s \in DOMAIN selectors :
           s \in DOMAIN selectors' /\ selectors[s] \subseteq selectors'[s]
      /\ \A s \in DOMAIN selectors' :
           \A h \in selectors'[s] \ MapGet(selectors, s, {}) :
             s \in simplesOf(lists'[h])
      /\ last'.st = "ok" =>
           \A h \in DOMAIN lists' : \A s \in simplesOf(lists'[h]) :
             s \in DOMAIN selectors' /\ h \in selectors'[s] ]_vars

\* a rule registered under a simple selector was rewritten by addExtension
C16_Witness ==
  /\ last.op = "addExtension" /\ last.st = "ok"
  /\ \E s \in DOMAIN last.pre.selectors : \E h \in last.pre.selectors[s] :
       /\ ~ListEq(lists[h], last.pre.lists[h])
       /\ h \in selectors[s]

\* two extensions with equal extenders and equal other members
sameExtension(e, f) ==
  /\ CplxEq(e.extender, f.extender)
  /\ [e EXCEPT !.extender = f.extender] = f

\* the extension is the value stored in extensions under its target and
\* extender
isStored(e) ==
  /\ e.target \in DOMAIN extensions
  /\ hasKey(extensions[e.target], e.extender)
  /\ sameExtension(mapGet(extensions[e.target], e.extender), e)

\* C17 (as stated): an Extension is in extensionsByExtender[x] if and only if
\* it is the value stored at extensions[target][extender] and x is a simple
\* selector of the extender's compound.
C17_ByExtenderMatchesExtensions ==
  /\ \A x \in DOMAIN extensionsByExtender : \A e \in Range(extensionsByExtender[x]) :
       isStored(e) /\ x \in Range(e.extender.v)
  /\ \A t \in DOMAIN extensions : \A e \in Range(extensions[t]) :
       \A x \in Range(e.extender.v) :
         /\ x \in DOMAIN extensionsByExtender
         /\ \E f \in Range(extensionsByExtender[x]) : sameExtension(f, e)

\* C17 (amended): the lists of extensionsByExtender only grow; an Extension
\* appended to extensionsByExtender[x] has x in its extender's compound and is
\* appended for every simple selector of that compound; and after an
\* addExtension call that returns, every simple selector of every complex
\* selector of the extender has an extension from that selector to the target
\* in its list.
C17_AppendedWhenStored ==
  [][ /\ \A x \in DOMAIN extensionsByExtender :
           /\ x \in DOMAIN extensionsByExtender'
           /\ Len(extensionsByExtender[x]) <= Len(extensionsByExtender'[x])
           /\ SubSeq(extensionsByExtender'[x], 1, Len(extensionsByExtender[x]))
                = extensionsByExtender[x]
      /\ \A x \in DOMAIN extensionsByExtender' :
           \A i \in DOMAIN extensionsByExtender'[x] :
             i > Len(MapGet(extensionsByExtender, x, <<>>)) =>
               /\ x \in Range(extensionsByExtender'[x][i].extender.v)
               /\ \A y \in Range(extensionsByExtender'[x][i].extender.v) :
                    extensionsByExtender'[x][i] \in Range(extensionsByExtender'[y])
      /\ (last'.op = "addExtension" /\ last'.st = "ok") =>
           \A complex \in Range(last'.pre.lists[last'.h]) :
             \A x \in Range(complex.v) :
               /\ x \in DOMAIN extensionsByExtender'
               /\ \E f \in Range(extensionsByExtender'[x]) :
                    CplxEq(f.extender, complex) /\ f.target = last'.target ]_vars

\* loop closure has merged or erased an entry of extensions
C17_Witness ==
  /\ last.op = "addExtension" /\ last.st = "ok"
  /\ \E x \in DOMAIN extensionsByExtender : \E e \in Range(extensionsByExtender[x]) :
       ~isStored(e)

----------------------------------------------------------------------------
(* Specification of extendComplex called for one complex selector of one  *)
(* compound, as extendList calls it for each element of a list             *)

X == Cls("x")     \* the id #x
Y == Cls("y")     \* the id #y

\* the compounds extended, and the compounds of the extenders
ExtendCompounds ==
  { <<A>>, <<A, B>>, <<A, C>>, <<C, B, A>>,
    <<C, NotSel(L1(<<A>>))>>, <<C, NotSel(L1(<<A, B>>))>> }

ExtenderCompounds == { <<X>>, <<Y>>, <<C>>, <<A, B>> }

ExtensionTargets == { {A}, {B}, {A, B} }

\* the extender of the directive number k
extenderObject(k, v) == [id |-> <<1, k, 1>>, v |-> v]

\* the map addExtension builds from one directive for each target
durableExtensions(f) ==
  [t \in DOMAIN f |->
     << [Extension(extenderObject(IF t = A THEN 1 ELSE 2, f[t])) EXCEPT
           !.target = t, !.isOptional = FALSE] >>]

\* the sourceSpecificity addExtension records for these directives
durableSpecificity(f) ==
  [s \in UNION {Range(f[t]) : t \in DOMAIN f} |->
     maxSpecificity(f[CHOOSE t \in DOMAIN f :
                        /\ s \in Range(f[t])
                        /\ (t = B => s \notin Range(MapGet(f, A, <<>>)))])]

\* the map extendOrReplace builds for one target compound and one source
oneOffExtensions(targets, v) ==
  [t \in targets |-> oneOffExtenders(<<extenderObject(1, v)>>, <<>>)]

InitExtend ==
  /\ StandAlone
  /\ \E v \in ExtendCompounds, isOriginal \in BOOLEAN :
       \E complex \in {[id |-> <<1, 3, 1>>, v |-> v]} :
         \/ \E targets \in ExtensionTargets : \E f \in [targets -> ExtenderCompounds] :
              call = [fn |-> "extendComplex", st |-> "called", mode |-> NORMAL,
                      complex |-> complex, exts |-> durableExtensions(f),
                      ss |-> durableSpecificity(f),
                      origs |-> IF isOriginal THEN {complex} ELSE {},
                      compound |-> <<>>, res |-> <<>>, newOrig |-> {}]
         \/ \E targets \in ExtensionTargets, e \in ExtenderCompounds,
               mode \in {TARGETS, REPLACE} :
              call = [fn |-> "extendComplex", st |-> "called", mode |-> mode,
                      complex |-> complex, exts |-> oneOffExtensions(targets, e),
                      ss |-> <<>>,
                      origs |-> IF isOriginal THEN {complex} ELSE {},
                      compound |-> <<>>, res |-> <<>>, newOrig |-> {}]

\* extendComplex(complex, extensions, mediaQueryContext): compound is what
\* extendCompound returned to it
ExtendComplex ==
  /\ call.fn = "extendComplex"
  /\ call.st = "called"
  /\ \E ec \in {extendCompound(call.complex.v, call.exts, Null, call.mode, call.ss,
                               call.origs)} :
     \E r \in {extendedComplex(call.complex, call.origs, <<2>>, ec)} :
       call' = [call EXCEPT !.st = r.st, !.compound = ec.res, !.res = r.res,
                            !.newOrig = r.newOrig]
  /\ UNCHANGED <<lists, selectors, extensions, extensionsByExtender, mediaContexts,
                 sourceSpecificity, originals, sheet, declared, directives, last>>

NextExtend == ExtendComplex

SpecExtend == InitExtend /\ [][NextExtend]_vars

extendReturned == call.fn = "extendComplex" /\ call.st = "ok"

\* C18 (as stated): whenever extendComplex rewrites a complex selector that is
\* in originals, every complex selector of its result that equals the input
\* is a member of originals when the call returns.
C18_EqualResultsOriginal ==
  (extendReturned /\ call.complex \in call.origs) =>
    \A k \in DOMAIN call.res :
      CplxEq(call.res[k], call.complex) => call.res[k] \in call.origs \cup call.newOrig

\* C18 (amended): whenever extendComplex rewrites a complex selector that is
\* in originals, the first complex selector of its result, and no other, is
\* inserted into originals; for a selector that is not in originals nothing
\* is inserted.
C18_FirstResultOriginal ==
  extendReturned =>
    call.newOrig = IF call.complex \in call.origs /\ call.res # <<>>
                     THEN {call.res[1]} ELSE {}

\* an original was rewritten and a later selector of the result equals it
C18_Witness ==
  /\ extendReturned /\ call.complex \in call.origs
  /\ \E k \in DOMAIN call.res : k > 1 /\ CplxEq(call.res[k], call.complex)

\* the simple selectors of the compound that are keys of the extension map
matchedTargets == (DOMAIN call.exts) \cap Range(call.complex.v)

\* the compound that the path taking the extender of target t and the other
\* simple selectors unchanged unifies to; <<>> when it cannot be unified
pathOf(t) ==
  unifyComplex(<< SelectSeq(call.complex.v, LAMBDA s : s # t),
                  call.exts[t][1].extender.v >>)

\* C19: in extendCompound, when unification fails for one path only that path
\* is pruned: the complex selectors produced by the other paths, including
\* the first path that reproduces the original compound, are still returned.
C19_OtherPathsReturned ==
  (extendReturned /\ call.mode = NORMAL /\ call.complex.v = <<A, B>>
     /\ matchedTargets = {A, B}) =>
    /\ \E k \in DOMAIN call.compound : CompoundEq(call.compound[k], call.complex.v)
    /\ \A t \in matchedTargets :
         pathOf(t) # <<>> =>
           \E k \in DOMAIN call.compound : CompoundEq(call.compound[k], pathOf(t)[1])

\* the same when every path can be unified
C19_AllPathsReturned ==
  (extendReturned /\ call.mode = NORMAL /\ call.complex.v = <<A, B>>
     /\ matchedTargets = {A, B}
     /\ unifyComplex(<<call.exts[A][1].extender.v, call.exts[B][1].extender.v>>) # <<>>) =>
    /\ \E k \in DOMAIN call.compound : CompoundEq(call.compound[k], call.complex.v)
    /\ \A t \in matchedTargets :
         pathOf(t) # <<>> =>
           \E k \in DOMAIN call.compound : CompoundEq(call.compound[k], pathOf(t)[1])

\* the extenders of two targets of the compound cannot be unified with each
\* other, each can be unified with the rest of the compound
C19_Witness ==
  /\ extendReturned /\ call.mode = NORMAL /\ call.complex.v = <<A, B>>
  /\ matchedTargets = {A, B}
  /\ unifyComplex(<<call.exts[A][1].extender.v, call.exts[B][1].extender.v>>) = <<>>
  /\ \A t \in matchedTargets : pathOf(t) # <<>>

C20_NestedOnly ==
  /\ extendReturned /\ call.mode \in {TARGETS, REPLACE}
  /\ matchedTargets = {}
  /\ Cardinality(DOMAIN call.exts) = 2
  /\ call.compound # <<>>

\* ---------------------------------------------------------------------------
\* The original simple selectors of a path
\* ---------------------------------------------------------------------------

\* the paths extendCompound builds for the compound of the call
pathsOfCall ==
  permutate(buildOptions(call.complex.v, call.exts, Null, call.mode, call.ss,
                         call.origs, 1,
                         [st |-> "ok", options |-> <<>>, used |-> {}]).options)

\* the paths that take the extender of an extension
extendingPaths ==
  { i \in DOMAIN pathsOfCall :
      \E n \in DOMAIN pathsOfCall[i] : ~pathsOfCall[i][n].isOriginal }

\* the compound has only plain simple selectors and one of them is a target
oneTarget(t) ==
  /\ extendReturned /\ call.mode = NORMAL
  /\ \A n \in DOMAIN call.complex.v : ~isSelectorPseudo(call.complex.v[n])
  /\ matchedTargets = {t}

\* C21: when extendCompound in NORMAL mode extends a target simple selector t
\* of compound K with a non-original extender, the compound of original
\* simples it hands to unifyComplex contains every simple selector of K other
\* than t, also when K has three or more simples and t is not the first one.
C21_OriginalsComplete ==
  \A t \in {A, B} :
    oneTarget(t) =>
      \A i \in extendingPaths :
        Range(call.complex.v) \ {t} \subseteq Range(pathOriginals(pathsOfCall[i]))

\* the same for the compounds in which at most one simple selector precedes t
C21_OriginalsCompleteShortPrefix ==
  \A t \in {A, B} :
    (oneTarget(t) /\ \A n \in DOMAIN call.complex.v :
                       call.complex.v[n] = t => n <= 2) =>
      \A i \in extendingPaths :
        Range(call.complex.v) \ {t} \subseteq Range(pathOriginals(pathsOfCall[i]))

\* the target is the third simple selector of the compound
C21_Witness ==
  /\ oneTarget(A) /\ Len(call.complex.v) = 3 /\ call.complex.v[3] = A
  /\ extendingPaths # {}

----------------------------------------------------------------------------
(* Specification of the two orders of one rule and one extension: the      *)
(* selector list L of a style rule and the directive `@extend T` of the    *)
(* selector list E reach the Extender in the order addSelector,            *)
(* addExtension (run `before`) and in the order addExtension, addSelector  *)
(* (run `after`), each run on an Extender of its own                       *)

OrderRules ==
  { L1(<<A>>), L1(<<A, C>>), << <<B, C>>, <<B>> >>, L1(<<C, NotSel(L1(<<A>>))>>),
    L1(<<P>>), << <<P>>, <<A>> >>, L1(<<C, B, A>>), << <<A>>, <<A>> >> }

OrderExtenders == { L1(<<B>>), L1(<<A>>), << <<C>>, <<A>> >>, L1(<<A, B>>) }

OrderTargets == {A, B, P}

\* the handles of the rule's list and of the extender
RuleHandle == 1
ExtenderHandle == 2

\* one run: pos counts the calls made, E is the Extender of the run
newRun(L, E) ==
  [pos |-> 0, st |-> "ok",
   E |-> [EmptyExtender EXCEPT
            !.lists = <<newList(RuleHandle, L), newList(ExtenderHandle, E)>>]]

InitOrder ==
  /\ StandAlone
  /\ \E L \in OrderRules, E \in OrderExtenders, T \in OrderTargets,
        isOptional \in BOOLEAN, mediaContext \in {Null, "print"} :
       call = [fn |-> "order", target |-> T, isOptional |-> isOptional,
               mediaContext |-> mediaContext, registered |-> FALSE,
               before |-> newRun(L, E), after |-> newRun(L, E)]

\* the run after a call that ended as r
ranTo(run, r) == [pos |-> run.pos + 1, st |-> r.st, E |-> r.E]

OrderUnchanged ==
  UNCHANGED <<lists, selectors, extensions, extensionsByExtender, mediaContexts,
              sourceSpecificity, originals, sheet, declared, directives, last>>

\* the style rule of the extender was compiled before both calls: its list is
\* registered in both runs
RegisterExtender ==
  /\ call.fn = "order" /\ ~call.registered
  /\ call.before.pos = 0 /\ call.after.pos = 0
  /\ \E r \in {addSelector(call.before.E, ExtenderHandle, call.mediaContext, 1)} :
       call' = [call EXCEPT !.registered = TRUE, !.before.E = r.E, !.after.E = r.E]
  /\ OrderUnchanged

\* run before: addSelector(L, mediaContext) is the first call
AddSelectorFirst ==
  /\ call.fn = "order" /\ call.before.pos = 0
  /\ \E r \in {addSelector(call.before.E, RuleHandle, call.mediaContext, 2)} :
       call' = [call EXCEPT !.before = ranTo(@, r)]
  /\ OrderUnchanged

\* run before: addExtension(E, T, mediaContext) is the second call
AddExtensionSecond ==
  /\ call.fn = "order" /\ call.before.pos = 1 /\ call.before.st = "ok"
  /\ \E r \in addExtension(call.before.E, call.before.E.lists[ExtenderHandle],
                           call.target, call.isOptional, call.mediaContext, 3) :
       call' = [call EXCEPT !.before = ranTo(@, r)]
  /\ OrderUnchanged

\* run after: addExtension(E, T, mediaContext) is the first call
AddExtensionFirst ==
  /\ call.fn = "order" /\ call.after.pos = 0
  /\ \E r \in addExtension(call.after.E, call.after.E.lists[ExtenderHandle],
                           call.target, call.isOptional, call.mediaContext, 3) :
       call' = [call EXCEPT !.after = ranTo(@, r)]
  /\ OrderUnchanged

\* run after: addSelector(L, mediaContext) is the second call
AddSelectorSecond ==
  /\ call.fn = "order" /\ call.after.pos = 1 /\ call.after.st = "ok"
  /\ \E r \in {addSelector(call.after.E, RuleHandle, call.mediaContext, 2)} :
       call' = [call EXCEPT !.after = ranTo(@, r)]
  /\ OrderUnchanged

NextOrder ==
  \/ RegisterExtender
  \/ AddSelectorFirst \/ AddExtensionSecond
  \/ AddExtensionFirst \/ AddSelectorSecond

SpecOrder == InitOrder /\ [][NextOrder]_vars

\* a run has made both calls, or one of them has failed
ended(run) == run.pos = 2 \/ run.st # "ok"

\* the content of the rule's list in a run
contentOf(run) == Values(run.E.lists[RuleHandle])

\* C22: for one rule selector list L and one extension E => T with equal media
\* contexts, the final content of L is the same whether addSelector(L) is
\* called before addExtension(E, T) or after it.
C22_OrderIndependent ==
  (call.fn = "order" /\ ended(call.before) /\ ended(call.after)) =>
    /\ call.before.st = call.after.st
    /\ contentOf(call.before) = contentOf(call.after)

\* both runs have ended and the extension has changed the rule's list
C22_Witness ==
  /\ call.fn = "order" /\ call.before.pos = 2 /\ call.after.pos = 2
  /\ call.before.st = "ok" /\ call.after.st = "ok"
  /\ Len(contentOf(call.before)) > 1
  /\ Len(contentOf(call.after)) > 1

----------------------------------------------------------------------------
(* Optional and mandatory extensions *)

\* C23: an extension stored in extensions[T][E] that was added by a
\* non-optional @extend stays non-optional in every later state: no later
\* addExtension, including the merge done by mergeExtension inside
\* extendExistingExtensions, changes its isOptional from false to true.
C23_StaysNonOptional ==
  [][ \A t \in DOMAIN extensions : \A i \in DOMAIN extensions[t] :
        ( /\ ~extensions[t][i].isOptional
          /\ t \in DOMAIN extensions'
          /\ hasKey(extensions'[t], extensions[t][i].extender) ) =>
          ~mapGet(extensions'[t], extensions[t][i].extender).isOptional ]_vars

----------------------------------------------------------------------------
(* The state after addExtension has thrown *)

\* the last call was an addExtension that failed with ExtendAcrossMedia
addExtensionThrew == last.op = "addExtension" /\ last.st = "throw"

----------------------------------------------------------------------------
(* Specification of Extension::withExtender on its own: the receiver and   *)
(* the new extender are drawn from bounded sets                            *)

ExtenderObjects ==
  { [id |-> <<1, 1, 1>>, v |-> <<A>>], [id |-> <<1, 2, 1>>, v |-> <<B>>],
    [id |-> <<1, 3, 1>>, v |-> <<A, B>>] }

ExtensionSpecificities == {0, ClassSpecificity, 2 * ClassSpecificity}

Receivers ==
  [extender : ExtenderObjects, target : {A, B}, specificity : ExtensionSpecificities,
   isOptional : BOOLEAN, isOriginal : BOOLEAN, mediaContext : {Null, "print"}]

InitWithExtender ==
  /\ StandAlone
  /\ \E receiver \in Receivers, newExtender \in ExtenderObjects :
       call = [fn |-> "withExtender", st |-> "called", receiver |-> receiver,
               newExtender |-> newExtender, res |-> receiver]

\* extension.withExtender(newExtender)
WithExtender ==
  /\ call.fn = "withExtender"
  /\ call.st = "called"
  /\ call' = [call EXCEPT !.st = "ok",
                          !.res = withExtender(call.receiver, call.newExtender)]
  /\ UNCHANGED <<lists, selectors, extensions, extensionsByExtender, mediaContexts,
                 sourceSpecificity, originals, sheet, declared, directives, last>>

NextWithExtender == WithExtender

SpecWithExtender == InitWithExtender /\ [][NextWithExtender]_vars

withExtenderReturned == call.fn = "withExtender" /\ call.st = "ok"

\* C25: Extension::withExtender(newExtender) returns a copy of the receiver
\* that differs from it only in extender: target, specificity, isOptional,
\* isOriginal and mediaContext of the result all equal the receiver's.
C25_OnlyExtenderDiffers ==
  withExtenderReturned =>
    call.res = [call.receiver EXCEPT !.extender = call.newExtender]

\* the extender of the result is the new one, and target, specificity and
\* isOptional of the result equal the receiver's
C25_CopiedFields ==
  withExtenderReturned =>
    /\ call.res.extender = call.newExtender
    /\ call.res.target = call.receiver.target
    /\ call.res.specificity = call.receiver.specificity
    /\ call.res.isOptional = call.receiver.isOptional

\* the receiver has a media context
C25_Witness ==
  withExtenderReturned /\ call.receiver.mediaContext # Null

----------------------------------------------------------------------------
(* Specification of the output buffer and its position: the emitter        *)
(* appends text to its buffer and reports it with update_position; it      *)
(* takes back the line feed that ends the buffer and reports the buffer    *)
(* that is left with remove_line                                           *)

MaxBuffer == 5

InitOutput ==
  /\ StandAlone
  /\ call = [fn |-> "Output", st |-> "ok", buffer |-> <<>>,
             output_position |-> Position(0, 1, 1), removed |-> 0]

\* the emitter appends text to the buffer
AppendToBuffer ==
  /\ call.fn = "Output" /\ call.st = "ok"
  /\ \E text \in Texts :
       /\ Len(call.buffer) + Len(text) <= MaxBuffer
       /\ call' = [call EXCEPT
                     !.buffer = @ \o text,
                     !.output_position = update_position(@, text)]
  /\ UNCHANGED <<lists, selectors, extensions, extensionsByExtender, mediaContexts,
                 sourceSpecificity, originals, sheet, declared, directives, last>>

\* the emitter erases the line feed at the end of the buffer
EraseLineFeed ==
  /\ call.fn = "Output" /\ call.st = "ok"
  /\ call.buffer # <<>>
  /\ call.buffer[Len(call.buffer)] = "\n"
  /\ \E buffer \in {SubSeq(call.buffer, 1, Len(call.buffer) - 1)} :
     \E r \in {remove_line(call.output_position, buffer)} :
       call' = [call EXCEPT !.st = r.st, !.buffer = buffer,
                            !.output_position = r.output_position,
                            !.removed = 1]
  /\ UNCHANGED <<lists, selectors, extensions, extensionsByExtender, mediaContexts,
                 sourceSpecificity, originals, sheet, declared, directives, last>>

NextOutput == AppendToBuffer \/ EraseLineFeed

SpecOutput == InitOutput /\ [][NextOutput]_vars

\* the 1-based line and column of the end of a text
endOf(text) ==
  [line |-> 1 + countLf(text), column |-> 1 + (Len(text) - (findLastLf(text) + 1))]

\* C26: after any sequence of update_position(text) and remove_line(buffer)
\* calls, output_position is the 1-based line and column of the end of the
\* emitted output: line = 1 + number of line feeds in the output and column =
\* 1 + number of characters after the last line feed.
C26_PositionIsEndOfOutput ==
  call.fn = "Output" =>
    /\ call.output_position.line = endOf(call.buffer).line
    /\ call.output_position.column = endOf(call.buffer).column

\* the same as long as no line was removed
C26_PositionWhileAppending ==
  (call.fn = "Output" /\ call.removed = 0) =>
    /\ call.output_position.line = endOf(call.buffer).line
    /\ call.output_position.column = endOf(call.buffer).column

\* a line feed was removed and the buffer that is left has one line
C26_Witness ==
  /\ call.fn = "Output" /\ call.st = "ok" /\ call.removed = 1
  /\ countLf(call.buffer) = 0 /\ call.buffer # <<>>

----------------------------------------------------------------------------
(* Specification of SourceMap::generate_source_map, as far as the members  *)
(* "sources" and "sourcesContent" go: the context holds the names and the  *)
(* contents of the files read, source_index the files the output refers to *)

MaxSources == 3

\* ctx.include_links and ctx.sources: names and contents of the files read
IncludeLinks == <<"a.scss", "b.scss", "c.scss">>
Sources == <<"a {}", "b {}", "c {}">>

\* the content of the file of a name
contentOfFile(name) ==
  Sources[CHOOSE k \in DOMAIN IncludeLinks : IncludeLinks[k] = name]

\* the vectors of at most MaxSources indices into the files read (from 0)
SourceIndexes ==
  UNION { [1..n -> 0..(Len(IncludeLinks) - 1)] : n \in 0..MaxSources }

\* the loop that fills "sources" (lines 31-35)
jsonIncludes(source_index, includes) ==
  [i \in 1..Len(source_index) |-> includes[source_index[i] + 1]]

\* the loop that fills "sourcesContent" (lines 39-45): i runs from 1 to
\* source_index.size() - 1 over the vector indexed from 0
jsonContents(include_sources, source_index, sources) ==
  IF include_sources /\ Len(source_index) > 1
    THEN [i \in 1..(Len(source_index) - 1) |-> sources[source_index[i + 1] + 1]]
    ELSE <<>>

InitGenerate ==
  /\ StandAlone
  /\ \E source_index \in SourceIndexes, include_sources \in BOOLEAN :
       call = [fn |-> "generate_source_map", st |-> "called",
               source_index |-> source_index, include_sources |-> include_sources,
               json_sources |-> <<>>, json_sourcesContent |-> <<>>]

\* SourceMap::generate_source_map(ctx)
GenerateSourceMap ==
  /\ call.fn = "generate_source_map"
  /\ call.st = "called"
  /\ call' = [call EXCEPT
                !.st = "ok",
                !.json_sources = jsonIncludes(call.source_index, IncludeLinks),
                !.json_sourcesContent =
                   jsonContents(call.include_sources, call.source_index, Sources)]
  /\ UNCHANGED <<lists, selectors, extensions, extensionsByExtender, mediaContexts,
                 sourceSpecificity, originals, sheet, declared, directives, last>>

NextGenerate == GenerateSourceMap

SpecGenerate == InitGenerate /\ [][NextGenerate]_vars

generated == call.fn = "generate_source_map" /\ call.st = "ok"

\* C27: when source_map_contents is enabled, generate_source_map emits a
\* sourcesContent array with exactly one entry per entry of sources, entry i
\* being the content of the file named by sources[i].
C27_ContentPerSource ==
  (generated /\ call.include_sources) =>
    /\ Len(call.json_sourcesContent) = Len(call.json_sources)
    /\ \A i \in DOMAIN call.json_sourcesContent :
         call.json_sourcesContent[i] = contentOfFile(call.json_sources[i])

\* sourcesContent holds the contents of the second and later sources
C27_ContentOfLaterSources ==
  (generated /\ call.include_sources) =>
    /\ Len(call.json_sourcesContent) + 1 = Len(call.json_sources)
         \/ call.json_sources = <<>>
    /\ \A i \in DOMAIN call.json_sourcesContent :
         call.json_sourcesContent[i] = contentOfFile(call.json_sources[i + 1])

\* the contents are enabled and the output refers to two files
C27_Witness ==
  /\ generated /\ call.include_sources
  /\ Len(call.json_sources) = 2
  /\ call.json_sources[1] # call.json_sources[2]

----------------------------------------------------------------------------
(* Specification of the built-in function if($condition, $if-true,         *)
(* $if-false): the three arguments, already evaluated, are drawn from a    *)
(* set of values                                                           *)

\* the values, written as they are inspected
SassValues == {"true", "false", "null", "0", "1", "''", "a"}

\* Value::isTruthy: every value but false and null is truthy
isTruthy(value) == value \notin {"false", "null"}

\* Meta::fnIf
fnIf(arguments) == IF isTruthy(arguments[1]) THEN arguments[2] ELSE arguments[1]

InitIf ==
  /\ StandAlone
  /\ \E arguments \in [1..3 -> SassValues] :
       call = [fn |-> "if", st |-> "called", arguments |-> arguments, res |-> "null"]

\* the call of if() with the arguments bound to its three parameters
FnIf ==
  /\ call.fn = "if"
  /\ call.st = "called"
  /\ call' = [call EXCEPT !.st = "ok", !.res = fnIf(call.arguments)]
  /\ UNCHANGED <<lists, selectors, extensions, extensionsByExtender, mediaContexts,
                 sourceSpecificity, originals, sheet, declared, directives, last>>

NextIf == FnIf

SpecIf == InitIf /\ [][NextIf]_vars

ifReturned == call.fn = "if" /\ call.st = "ok"

\* C28: the built-in function if($condition, $if-true, $if-false) returns its
\* $if-true argument when $condition is truthy and its $if-false argument
\* otherwise, for every triple of argument values.
C28_IfSelects ==
  ifReturned =>
    call.res = IF isTruthy(call.arguments[1]) THEN call.arguments[2]
               ELSE call.arguments[3]

\* the same for a truthy condition
C28_IfTrueSelected ==
  (ifReturned /\ isTruthy(call.arguments[1])) => call.res = call.arguments[2]

\* the condition is not truthy and $if-false is another value
C28_Witness ==
  /\ ifReturned /\ ~isTruthy(call.arguments[1])
  /\ call.arguments[3] # call.arguments[1]

----------------------------------------------------------------------------
(* Specification of Environment::set_lexical: a chain of frames, the first *)
(* the root frame, the second the global frame, every later one a lexical  *)
(* frame whose parent is the frame before it; the values are not managed   *)
(* by the frames' memory                                                   *)

MaxFrames == 4

EnvKeys == {"x", "y"}

\* the frames: a frame binds some of the keys
Frames == UNION { [keys -> {"old"}] : keys \in SUBSET EnvKeys }

\* the chains of 2 to MaxFrames frames
Chains == UNION { [1..n -> Frames] : n \in 2..MaxFrames }

\* a frame that takes the global frame, too, for a lexical one
is_lexicalOrGlobal(frames, cur) == cur > 1

\* Environment::is_lexical: the frame has a parent and a grandparent
is_lexical(frames, cur) == cur - 1 >= 1 /\ cur - 2 >= 1

\* Environment::has_local
has_local(frame, key) == key \in DOMAIN frame

\* Environment::set_local: local_frame_[key] = val
set_local(frame, key, val) ==
  [k \in (DOMAIN frame) \cup {key} |-> IF k = key THEN val ELSE frame[k]]

\* Environment::has_lexical, cur running from the frame it is called on
RECURSIVE has_lexicalFrom(_, _, _)
has_lexicalFrom(frames, cur, key) ==
  IF ~is_lexical(frames, cur) THEN FALSE
  ELSE IF has_local(frames[cur], key) THEN TRUE
  ELSE has_lexicalFrom(frames, cur - 1, key)

has_lexical(frames, this, key) == has_lexicalFrom(frames, this, key)

\* Environment::set_lexical, cur running from the frame it is called on
RECURSIVE set_lexicalFrom(_, _, _, _, _)
set_lexicalFrom(frames, this, cur, key, val) ==
  IF ~is_lexical(frames, cur)
    THEN [frames EXCEPT ![this] = set_local(frames[this], key, val)]
  ELSE IF has_local(frames[cur], key)
    THEN [frames EXCEPT ![cur] = set_local(frames[cur], key, val)]
  ELSE set_lexicalFrom(frames, this, cur - 1, key, val)

set_lexical(frames, this, key, val) == set_lexicalFrom(frames, this, this, key, val)

InitEnvironment ==
  /\ StandAlone
  /\ \E frames \in Chains :
       call = [fn |-> "set_lexical", st |-> "called", frames |-> frames,
               pre |-> frames, this |-> Len(frames), key |-> "x"]

\* this->set_lexical(key, val) on one frame of the chain
SetLexical ==
  /\ call.fn = "set_lexical"
  /\ call.st = "called"
  /\ \E this \in DOMAIN call.frames, key \in EnvKeys :
       call' = [call EXCEPT !.st = "ok", !.this = this, !.key = key,
                            !.frames = set_lexical(call.frames, this, key, "new")]
  /\ UNCHANGED <<lists, selectors, extensions, extensionsByExtender, mediaContexts,
                 sourceSpecificity, originals, sheet, declared, directives, last>>

NextEnvironment == SetLexical

SpecEnvironment == InitEnvironment /\ [][NextEnvironment]_vars

\* set_lexical has returned and was called on a lexical frame
setOnLexical == call.fn = "set_lexical" /\ call.st = "ok" /\ call.this >= 3

\* the lexical frames from the current one up that bind the key before the call
bindingFrames == { i \in 3..call.this : call.key \in DOMAIN call.pre[i] }

\* the frame the call has to write: the innermost one that binds the key,
\* otherwise the current one
written ==
  IF bindingFrames # {}
    THEN CHOOSE i \in bindingFrames : \A j \in bindingFrames : j <= i
    ELSE call.this

\* C29: Environment::set_lexical(key, val) called on a lexical frame updates
\* the innermost lexical frame (searching from the current frame up to, but
\* not including, the global frame) that already binds key, otherwise binds
\* key in the current frame; for every chain of frames it leaves the global
\* frame and the root frame unchanged and has_lexical(key) is true afterwards.
C29_SetLexical ==
  setOnLexical =>
    /\ call.key \in DOMAIN call.frames[written]
    /\ call.frames[written][call.key] = "new"
    /\ \A k \in DOMAIN call.frames[written] :
         k # call.key => k \in DOMAIN call.pre[written]
                         /\ call.frames[written][k] = call.pre[written][k]
    /\ \A i \in DOMAIN call.frames : i # written => call.frames[i] = call.pre[i]
    /\ call.frames[1] = call.pre[1]
    /\ call.frames[2] = call.pre[2]
    /\ has_lexical(call.frames, call.this, call.key)

\* the key is bound in the global frame and in a lexical frame above the
\* current one, and not in the current one
C29_Witness ==
  /\ setOnLexical
  /\ call.key \in DOMAIN call.pre[2]
  /\ bindingFrames # {}
  /\ call.this \notin bindingFrames

\* the key is bound in the global frame only
C29_WitnessGlobalOnly ==
  /\ setOnLexical
  /\ call.key \in DOMAIN call.pre[2]
  /\ bindingFrames = {}

----------------------------------------------------------------------------
(* Specification of WithConfig: the constructor reads the list of config   *)
(* variables and pushes a lookup table onto compiler.withConfigStack, the  *)
(* destructor pops it                                                      *)

MaxConfigs == 3

ConfigNames == {"a", "b", "c"}

\* the lists of at most MaxConfigs config variables, by name
ConfigLists == UNION { [1..n -> ConfigNames] : n \in 0..MaxConfigs }

\* the loop of the constructor over configs (lines 30-35); config is the
\* lookup table, which the loop reads and never writes
RECURSIVE readConfigs(_, _, _)
readConfigs(configs, i, config) ==
  IF i > Len(configs) THEN [st |-> "ok", config |-> config]
  ELSE IF configs[i] \in config THEN [st |-> "throw", config |-> config]
  ELSE readConfigs(configs, i + 1, config)

\* WithConfig::WithConfig: the outcome and the stack after it
WithConfigOf(withConfigStack, configs, hasConfig, r) ==
  IF ~hasConfig THEN [st |-> "ok", withConfigStack |-> withConfigStack]
  ELSE IF r.st # "ok" THEN [st |-> r.st, withConfigStack |-> withConfigStack]
  ELSE [st |-> "ok", withConfigStack |-> Append(withConfigStack, r.config)]

InitWithConfig ==
  /\ StandAlone
  /\ \E configs \in ConfigLists, hasConfig \in BOOLEAN,
        withConfigStack \in {<<>>, <<{"a"}>>} :
       call = [fn |-> "WithConfig", st |-> "called", configs |-> configs,
               hasConfig |-> hasConfig, withConfigStack |-> withConfigStack,
               pre |-> withConfigStack]

\* WithConfig::WithConfig(compiler, configs, hasConfig)
WithConfig ==
  /\ call.fn = "WithConfig"
  /\ call.st = "called"
  /\ \E r \in {WithConfigOf(call.withConfigStack, call.configs, call.hasConfig,
                            readConfigs(call.configs, 1, {}))} :
       call' = [call EXCEPT !.st = r.st, !.withConfigStack = r.withConfigStack]
  /\ UNCHANGED <<lists, selectors, extensions, extensionsByExtender, mediaContexts,
                 sourceSpecificity, originals, sheet, declared, directives, last>>

\* WithConfig::~WithConfig of an object that was constructed
DestroyWithConfig ==
  /\ call.fn = "WithConfig"
  /\ call.st = "ok"
  /\ call' = [call EXCEPT
                !.st = "destroyed",
                !.withConfigStack =
                   IF call.hasConfig THEN SubSeq(@, 1, Len(@) - 1) ELSE @]
  /\ UNCHANGED <<lists, selectors, extensions, extensionsByExtender, mediaContexts,
                 sourceSpecificity, originals, sheet, declared, directives, last>>

NextWithConfig == WithConfig \/ DestroyWithConfig

SpecWithConfig == InitWithConfig /\ [][NextWithConfig]_vars

\* two variables of the list have the same name
definedTwice(configs) ==
  \E i, j \in DOMAIN configs : i # j /\ configs[i] = configs[j]

\* C30: constructing WithConfig with hasConfig = true and a config list in
\* which two variables have the same name raises the "Defined Twice" error
\* and pushes nothing onto compiler.withConfigStack.
C30_DefinedTwiceRaises ==
  (call.fn = "WithConfig" /\ call.st # "called" /\ call.hasConfig
     /\ definedTwice(call.configs)) =>
    /\ call.st = "throw"
    /\ call.withConfigStack = call.pre

\* the stack is as before once the object is destroyed, and without a config
\* nothing is pushed
C30_StackRestored ==
  /\ (call.fn = "WithConfig" /\ call.st = "destroyed") =>
       call.withConfigStack = call.pre
  /\ (call.fn = "WithConfig" /\ ~call.hasConfig) =>
       call.withConfigStack = call.pre

\* the constructor has run on a list with a name defined twice
C30_Witness ==
  /\ call.fn = "WithConfig" /\ call.st # "called" /\ call.hasConfig
  /\ definedTwice(call.configs)

====
